---- MODULE Spec2Model ----
(***************************************************************************)
(* A model of the AI ticket-management service (src/ai-service): the       *)
(* in-memory MockCache, the Redis cache, the rate limiter middleware, the  *)
(* /ai/triage handler with the triage service behind it, and the           *)
(* TensorFlow ticket classifier.                                           *)
(*                                                                         *)
(* Conventions.  A Python Optional is a sequence of length 0 (None) or 1.  *)
(* Time is in whole seconds.  A text (title, description) is a sequence of *)
(* words; "keyword in text" of the source is containment of the keyword's  *)
(* words as consecutive words of the text.                                 *)
(***************************************************************************)
EXTENDS Integers, Sequences, FiniteSets, TLC

VARIABLES
    now,        \* time.time(), in seconds
    ticks,      \* number of clock steps taken so far
    mcache,     \* MockCache._cache : key -> Optional [value, expires_at]
    mcLastSet,  \* history: per key, the last set() not followed by a delete()
    mcGot,      \* history: the last get(), with mcLastSet of its key then
    redisUp,    \* RedisCache.redis_client is not None
    rlCounters, \* Redis keys "rate_limit:<identifier>:<window_start>"
    rlLimit,    \* RateLimiter.requests_per_window
    rlWindow,   \* RateLimiter.window_seconds
    rlPending,  \* middleware calls between reading the clock and the increment
    rlArrived,  \* number of requests received by the middleware
    rlHist,     \* history: per rate-limit key, what the middleware answered
    mode,       \* which models and services main.py imported
    mainCache,  \* Redis keys "triage_enhanced:<ticket_id>"
    triageCache,\* Redis keys "triage:<md5 of the content>"
    reqs,       \* the /ai/triage requests: position, locals, response
    okAt,       \* history: per ticket_id, when a triage succeeded within the
                \* last MainCacheTTL seconds
    overlap,    \* history: a request began while another was in progress
    ticket_classification_model,
                \* the object main.py binds to that name
    clsLast,    \* history: the last /ai/classify-ticket-advanced call
    fbStored,   \* Redis keys "feedback:<feedback_id>" with their expiry times
    fbStore,    \* Redis keys "feedback_list:<type>" and "model_metrics:<type>"
    fbProcs,    \* the collect_*_feedback calls: position and locals
    fbBegun,    \* number of feedback submissions begun
    fbHist,     \* history: per type, the submissions processed and what
                \* happened to the metrics key
    optimization_weights,
                \* WorkloadOptimizer.optimization_weights of the one instance
    woLast,     \* history: the last /ai/optimize-workload call
    workloadCache,
                \* Redis: the keys workload_opt:<n>:<m>:<hash of the goals>
    resolutionMainCache,
                \* Redis: the keys resolution_enhanced:<hash>:<category>
    resolutionCache,
                \* Redis: the keys resolution:<hash> of the resolution service
    rsLast,     \* history: the last /ai/suggest-resolution call
    slaCache,   \* Redis: the keys sla_prediction:<ticket_id>:<time>
    slaLast     \* history: the last /ai/predict-sla call

cacheVars == <<mcache, mcLastSet, mcGot>>
clockVars == <<now, ticks>>
rateVars == <<rlCounters, rlLimit, rlWindow, rlPending, rlArrived, rlHist>>
triageVars == <<mode, mainCache, triageCache, reqs, okAt, overlap>>
classifyVars == <<ticket_classification_model, clsLast>>
feedbackVars == <<fbStored, fbStore, fbProcs, fbBegun, fbHist>>
workloadVars == <<optimization_weights, woLast, workloadCache>>
resolutionVars == <<resolutionMainCache, resolutionCache, rsLast>>
slaVars == <<slaCache, slaLast>>
vars == <<now, ticks, mcache, mcLastSet, mcGot, redisUp, rateVars, triageVars,
          classifyVars, feedbackVars, workloadVars, resolutionVars, slaVars>>

\* what each component leaves alone
notCache == <<redisUp, rateVars, triageVars, classifyVars, feedbackVars, workloadVars, resolutionVars, slaVars>>
notRate == <<redisUp, cacheVars, triageVars, classifyVars, feedbackVars, workloadVars, resolutionVars, slaVars>>
notTriage == <<redisUp, cacheVars, rateVars, classifyVars, feedbackVars, workloadVars, resolutionVars, slaVars>>
notClassify == <<redisUp, clockVars, cacheVars, rateVars, triageVars, feedbackVars, workloadVars, resolutionVars, slaVars>>
notFeedback == <<redisUp, cacheVars, rateVars, triageVars, classifyVars, workloadVars, resolutionVars, slaVars>>
notWorkload == <<redisUp, clockVars, cacheVars, rateVars, triageVars, classifyVars,
                 feedbackVars, resolutionVars, slaVars>>
notResolution == <<redisUp, cacheVars, rateVars, triageVars, classifyVars, feedbackVars,
                   workloadVars, slaVars>>
notSla == <<redisUp, cacheVars, rateVars, triageVars, classifyVars, feedbackVars,
            workloadVars, resolutionVars>>

----------------------------------------------------------------------------
(* Bounds *)
MaxTicks == 3
MaxCounter == 2
MaxLimit == 2
MaxRlReqs == 4
MaxInflight == 2
MaxFeedback == 3

(* Python helpers *)
None == <<>>
Some(x) == <<x>>

\* Python's `a or b` on Optional[int] operands: a when a is truthy
PyOr(a, b) == IF a # None /\ a[1] # 0 THEN a ELSE b

Min(a, b) == IF a <= b THEN a ELSE b
Max(a, b) == IF a >= b THEN a ELSE b

----------------------------------------------------------------------------
(* The clock *)
DefaultTTL == 3600

TickSteps == {1, DefaultTTL - 1}

----------------------------------------------------------------------------
(* MockCache (cache/mock_cache.py) *)

McKeys == {"k1"}
McValues == {1}
McTTLs == {None, Some(0), Some(2)}
McExpires == {None, Some(1)}

\* MockCache.__init__
McInit ==
    /\ mcache = [k \in McKeys |-> None]
    /\ mcLastSet = [k \in McKeys |-> None]
    /\ mcGot = None

\* the comparison of MockCache.get: an entry is live strictly before expires_at
McLive_Inclusive(t, entry) == t <= entry.expires_at
McLive(t, entry) == t < entry.expires_at

\* MockCache.get: [result, cache after the call]
McGetF(cache, key, t) ==
    IF cache[key] # None
    THEN IF McLive(t, cache[key][1])
         THEN [result |-> Some(cache[key][1].value), cache |-> cache]
         ELSE [result |-> None, cache |-> [cache EXCEPT ![key] = None]]
    ELSE [result |-> None, cache |-> cache]

\* MockCache.set: the cache after the call
McSetF(cache, key, value, ttl, expire, t) ==
    LET expiry_time == PyOr(expire, PyOr(ttl, Some(DefaultTTL)))[1]
    IN [cache EXCEPT ![key] = Some([value |-> value, expires_at |-> t + expiry_time])]

McGet(key) ==
    LET r == McGetF(mcache, key, now)
    IN /\ mcache' = r.cache
       /\ mcGot' = Some([key |-> key, result |-> r.result, at |-> now,
                         since |-> mcLastSet[key]])
       /\ UNCHANGED <<mcLastSet, clockVars, notCache>>

McSet(key, value, ttl, expire) ==
    /\ mcache' = McSetF(mcache, key, value, ttl, expire, now)
    /\ mcLastSet' = [mcLastSet EXCEPT ![key] =
                        Some([value |-> value, at |-> now, ttl |-> ttl, expire |-> expire])]
    /\ UNCHANGED <<mcGot, clockVars, notCache>>

\* MockCache.delete
McDelete(key) ==
    /\ mcache' = [mcache EXCEPT ![key] = None]
    /\ mcLastSet' = [mcLastSet EXCEPT ![key] = None]
    /\ UNCHANGED <<mcGot, clockVars, notCache>>

\* MockCache.increment: get(key) or 0, add, set(key, new_value, ttl)
McIncrement(key, amount, ttl) ==
    LET r == McGetF(mcache, key, now)
        current_value == IF r.result # None /\ r.result[1] # 0 THEN r.result[1] ELSE 0
        new_value == current_value + amount
    IN /\ new_value <= MaxCounter
       /\ mcache' = McSetF(r.cache, key, new_value, ttl, None, now)
       /\ mcGot' = Some([key |-> key, result |-> r.result, at |-> now,
                         since |-> mcLastSet[key]])
       /\ mcLastSet' = [mcLastSet EXCEPT ![key] =
                           Some([value |-> new_value, at |-> now, ttl |-> ttl, expire |-> None])]
       /\ UNCHANGED <<clockVars, notCache>>

Tick ==
    /\ ticks < MaxTicks
    /\ \E d \in TickSteps : now' = now + d
    /\ ticks' = ticks + 1

\* the passage of time with a sweep that drops every expired entry
McTick_Sweeping ==
    /\ Tick
    /\ mcache' = [k \in DOMAIN mcache |->
                    IF mcache[k] # None /\ ~McLive(now', mcache[k][1])
                    THEN None ELSE mcache[k]]
    /\ UNCHANGED <<mcLastSet, mcGot, notCache>>
McTick == Tick /\ UNCHANGED <<cacheVars, notCache>>

----------------------------------------------------------------------------
(* Redis counters and the rate limiter (cache/redis_cache.py,               *)
(* middleware/rate_limiter.py)                                              *)

RlIdentifiers == {"ip:10.0.0.1", "ip:10.0.0.2"}
RlPaths == {"/ai/triage", "/health"}
RlExemptPaths == {"/", "/health", "/docs", "/redoc", "/openapi.json"}
RlLimits == 1 .. MaxLimit
RlWindows == {2}
RlWindowStarts == {t - (t % w) : t \in 0 .. MaxTicks, w \in RlWindows}
RlKeys == RlIdentifiers \X RlWindowStarts

RlNoHist == [passed |-> 0, counted |-> 0, allowed |-> 0, rejected |-> 0]

\* RateLimiter.__init__ on an empty Redis, no request seen yet
RlInit(requests_per_window, window_seconds) ==
    /\ rlLimit = requests_per_window
    /\ rlWindow = window_seconds
    /\ rlCounters = [k \in RlKeys |-> None]
    /\ rlPending = [k \in RlKeys |-> 0]
    /\ rlArrived = 0
    /\ rlHist = [k \in RlKeys |-> RlNoHist]

\* a Redis key holds its value until its expiry time
RedisLive(entry, t) == entry # None /\ t < entry[1].expires_at

\* RedisCache.increment with a connected client: MULTI; INCR key; EXPIRE key ttl; EXEC
RedisIncr(counters, key, amount, ttl, t) ==
    LET cur == IF RedisLive(counters[key], t) THEN counters[key][1].value ELSE 0
    IN [counters EXCEPT ![key] = Some([value |-> cur + amount, expires_at |-> t + ttl])]

\* RateLimiter.is_allowed: the decision on the counter's new value
IsAllowed_OffByOne(current_count, limit) == current_count <= limit + 1
IsAllowed(current_count, limit) == current_count <= limit

\* RateLimiter.is_allowed, lines 41-43: the window of the current time
WindowStart(t, window_seconds) == t - (t % window_seconds)

\* rate_limit_middleware up to the await of redis_cache.increment
RlArrive(identifier, path) ==
    /\ rlArrived < MaxRlReqs
    /\ rlArrived' = rlArrived + 1
    /\ IF path \in RlExemptPaths
       THEN UNCHANGED <<rlPending>>
       ELSE LET key == <<identifier, WindowStart(now, rlWindow)>>
            IN /\ rlPending[key] < MaxInflight
               /\ rlPending' = [rlPending EXCEPT ![key] = @ + 1]
    /\ UNCHANGED <<rlCounters, rlLimit, rlWindow, rlHist, clockVars, notRate>>

\* the middleware rejecting the request when current_count is None
RlIncrement_FailClosed(key, ok) ==
    /\ rlPending[key] > 0
    /\ rlPending' = [rlPending EXCEPT ![key] = @ - 1]
    /\ IF redisUp /\ ok
       THEN LET counters == RedisIncr(rlCounters, key, 1, rlWindow, now)
                current_count == counters[key][1].value
                is_allowed == IsAllowed(current_count, rlLimit)
                inWindow == now < key[2] + rlWindow
            IN /\ rlCounters' = counters
               /\ rlHist' = [rlHist EXCEPT ![key] =
                    [passed   |-> @.passed + (IF is_allowed THEN 1 ELSE 0),
                     counted  |-> @.counted + (IF inWindow THEN 1 ELSE 0),
                     allowed  |-> @.allowed + (IF inWindow /\ is_allowed THEN 1 ELSE 0),
                     rejected |-> @.rejected + (IF inWindow /\ ~is_allowed THEN 1 ELSE 0)]]
       ELSE /\ rlHist' = [rlHist EXCEPT ![key].rejected = @ + 1]
            /\ UNCHANGED rlCounters
    /\ UNCHANGED <<rlLimit, rlWindow, rlArrived, clockVars, notRate>>

\* RedisCache.increment runs, is_allowed decides, the middleware answers 429
\* or calls the endpoint.  ok = FALSE: the pipeline raised.
RlIncrement(key, ok) ==
    /\ rlPending[key] > 0
    /\ rlPending' = [rlPending EXCEPT ![key] = @ - 1]
    /\ IF redisUp /\ ok
       THEN LET counters == RedisIncr(rlCounters, key, 1, rlWindow, now)
                current_count == counters[key][1].value
                is_allowed == IsAllowed(current_count, rlLimit)
                inWindow == now < key[2] + rlWindow
            IN /\ rlCounters' = counters
               /\ rlHist' = [rlHist EXCEPT ![key] =
                    [passed   |-> @.passed + (IF is_allowed THEN 1 ELSE 0),
                     counted  |-> @.counted + (IF inWindow THEN 1 ELSE 0),
                     allowed  |-> @.allowed + (IF inWindow /\ is_allowed THEN 1 ELSE 0),
                     rejected |-> @.rejected + (IF inWindow /\ ~is_allowed THEN 1 ELSE 0)]]
       ELSE \* current_count is None: the request is allowed
            /\ rlHist' = [rlHist EXCEPT ![key].passed = @ + 1]
            /\ UNCHANGED rlCounters
    /\ UNCHANGED <<rlLimit, rlWindow, rlArrived, clockVars, notRate>>

\* one second passes; Redis drops the keys whose expiry time has come
RlTick ==
    /\ ticks < MaxTicks
    /\ now' = now + 1
    /\ ticks' = ticks + 1
    /\ rlCounters' = [k \in RlKeys |->
                        IF RedisLive(rlCounters[k], now + 1) THEN rlCounters[k] ELSE None]
    /\ UNCHANGED <<rlLimit, rlWindow, rlPending, rlArrived, rlHist, notRate>>

\* the requests of the middleware, with what get_identifier reads: the
\* authorization header (a string of characters), the client's host and the
\* entries of x-forwarded-for.  alice and bob send bearer tokens (JSON Web
\* Tokens signed the same way, which start alike), carol an API key; the last
\* request is anonymous
JwtStart == <<"B", "e", "a", "r", "e", "r", " ", "e", "y", "J", "h", "b", "G", "c",
              "i", "O", "i", "J", "I", "U", "z", "I", "1", "N", "i", "J", "9", ".">>
RlRequest(user, authorization, host, forwarded_for) ==
    [user |-> user, authorization |-> authorization, host |-> host,
     forwarded_for |-> forwarded_for]
RlRequests ==
    {RlRequest("alice", Some(JwtStart \o <<"a">>), Some("10.0.0.1"), None),
     RlRequest("bob", Some(JwtStart \o <<"b">>), Some("10.0.0.2"), None),
     RlRequest("carol", Some(<<"K", "e", "y", " ", "c">>), Some("10.0.0.1"), None),
     RlRequest("", None, Some("10.0.0.9"), Some(<<"10.0.0.1", "10.0.0.9">>))}

\* the characters of the authorization header that get_identifier keeps
IdentifierLength == 20

\* RateLimiter.get_identifier
GetIdentifier(request) ==
    IF request.authorization # None /\ request.authorization[1] # <<>>
    THEN <<"user", SubSeq(request.authorization[1], 1,
                          Min(IdentifierLength, Len(request.authorization[1])))>>
    ELSE LET client_ip == IF request.host # None THEN request.host[1] ELSE "unknown"
         IN IF request.forwarded_for # None /\ request.forwarded_for[1] # <<>>
            THEN <<"ip", request.forwarded_for[1][1]>>
            ELSE <<"ip", client_ip>>

RlUserKeys == {GetIdentifier(q) : q \in RlRequests} \X RlWindowStarts

\* RateLimiter.__init__ on an empty Redis, for the requests above
RlUserInit(requests_per_window, window_seconds) ==
    /\ rlLimit = requests_per_window
    /\ rlWindow = window_seconds
    /\ rlCounters = [k \in RlUserKeys |-> None]
    /\ rlPending = [k \in RlUserKeys |-> 0]
    /\ rlArrived = 0
    /\ rlHist = [k \in RlUserKeys |-> RlNoHist]

\* rate_limit_middleware for one request, from get_identifier to the answer
\* (429 or the endpoint), with nothing in between.  ok = FALSE: the pipeline
\* raised.
RateLimitMiddleware(request, path, ok) ==
    /\ rlArrived < MaxRlReqs
    /\ rlArrived' = rlArrived + 1
    /\ IF path \in RlExemptPaths
       THEN UNCHANGED <<rlCounters, rlHist>>
       ELSE LET identifier == GetIdentifier(request)
                key == <<identifier, WindowStart(now, rlWindow)>>
            IN IF redisUp /\ ok
               THEN LET counters == RedisIncr(rlCounters, key, 1, rlWindow, now)
                        is_allowed == IsAllowed(counters[key][1].value, rlLimit)
                    IN /\ rlCounters' = counters
                       /\ rlHist' = [rlHist EXCEPT ![key] =
                            [passed   |-> @.passed + (IF is_allowed THEN 1 ELSE 0),
                             counted  |-> @.counted + 1,
                             allowed  |-> @.allowed + (IF is_allowed THEN 1 ELSE 0),
                             rejected |-> @.rejected + (IF is_allowed THEN 0 ELSE 1)]]
               ELSE /\ rlHist' = [rlHist EXCEPT ![key].passed = @ + 1]
                    /\ UNCHANGED rlCounters
    /\ UNCHANGED <<rlPending, rlLimit, rlWindow, clockVars, notRate>>

\* one second passes; Redis drops the keys whose expiry time has come
RlUserTick ==
    /\ ticks < MaxTicks
    /\ now' = now + 1
    /\ ticks' = ticks + 1
    /\ rlCounters' = [k \in RlUserKeys |->
                        IF RedisLive(rlCounters[k], now + 1) THEN rlCounters[k] ELSE None]
    /\ UNCHANGED <<rlLimit, rlWindow, rlPending, rlArrived, rlHist, notRate>>

----------------------------------------------------------------------------
(* C3 *)

\* C3 as stated: for each client identifier and each fixed window, at most
\* requests_per_window requests are let through to the endpoints.
C3_Original == \A k \in RlKeys : rlHist[k].passed <= rlLimit

\* C3 amended: for each client identifier and each fixed window, of the
\* requests whose counter increment Redis executes successfully within that
\* window, the first requests_per_window are let through and every further
\* one is answered with 429, however the requests interleave.
C3_WindowLimit ==
    \A k \in RlKeys :
        /\ rlHist[k].allowed = Min(rlHist[k].counted, rlLimit)
        /\ rlHist[k].rejected = rlHist[k].counted - rlHist[k].allowed

\* some identifier was answered 429 in a window after two requests of it
\* were in flight at once
C3_Witness ==
    \E k \in RlKeys : rlHist[k].rejected > 0 /\ rlHist[k].allowed = rlLimit

----------------------------------------------------------------------------
(* Strings.  A string is a sequence of atoms: lower-case words, the blank  *)
(* " " and the bar "|".  Concatenation of strings is concatenation of      *)
(* sequences; two word atoms are never adjacent.                           *)

Words == {"a", "outage", "virus", "server", "password", "printer", "email"}

\* Python's `keyword in word` for the words above: the one-word keywords of
\* the source's lists that occur inside the word
KeywordsInside(atom) ==
    CASE atom = "outage" -> {"outage"}
      [] atom = "virus" -> {"virus"}
      [] atom = "server" -> {"server"}
      [] atom = "password" -> {"password", "word"}
      [] atom = "printer" -> {"printer", "print"}
      [] atom = "email" -> {"email", "mail"}
      [] OTHER -> {}

\* Python's `keyword in text`
KwIn(keyword, text) ==
    IF Len(keyword) = 1
    THEN \E i \in 1 .. Len(text) : keyword[1] \in KeywordsInside(text[i])
    ELSE \E i \in 1 .. Len(text) :
            /\ i + Len(keyword) - 1 <= Len(text)
            /\ SubSeq(text, i, i + Len(keyword) - 1) = keyword

\* any(word in text for word in keywords)
AnyKwIn(keywords, text) == \E k \in keywords : KwIn(k, text)

\* sum(1 for keyword in keywords if keyword in text)
Matches(keywords, text) == Cardinality({k \in keywords : KwIn(k, text)})

\* f"{request.title} {request.description}".lower()
TextOf(request) == request.title \o <<" ">> \o request.description

\* f"{x}" of an Optional[str]
Fmt(opt) == IF opt = None THEN "None" ELSE opt[1]

----------------------------------------------------------------------------
(* Confidence scores.  A score is a whole number of units, ConfOne units   *)
(* being 1.0; ConfOne is a multiple of 100 and of every keyword-list       *)
(* length, so the scores of the source are whole numbers of units.         *)
ConfOne == 43758000
Pct(n) == n * (ConfOne \div 100)

----------------------------------------------------------------------------
(* Ticket models (models/ticket_models.py) *)

TicketCategory == {"hardware", "software", "network", "security", "email",
                   "backup", "printer", "phone", "access", "other"}
Priority == {"critical", "high", "medium", "low"}
Urgency == {"urgent", "high", "medium", "low"}
Impact == {"high", "medium", "low"}

\* TriageResult: the validation of a dictionary against the model
ValidTriageResult_NoRange(d) ==
    /\ d.ticket_id # None
    /\ d.category \in TicketCategory
    /\ d.priority \in Priority
    /\ d.urgency \in Urgency
    /\ d.impact \in Impact
ValidTriageResult(d) ==
    /\ d.ticket_id # None
    /\ d.category \in TicketCategory
    /\ d.priority \in Priority
    /\ d.urgency \in Urgency
    /\ d.impact \in Impact
    /\ d.confidence_score >= 0 /\ d.confidence_score <= ConfOne

----------------------------------------------------------------------------
(* Triage service (services/triage_service.py) *)

\* TicketTriageService._build_category_keywords, in dictionary order
CategoryOrder == <<"hardware", "software", "network", "security", "email", "backup", "printer", "phone", "access">>

CategoryKeywords(category) ==
    CASE category = "hardware" ->
        {<<"computer">>, <<"laptop">>, <<"desktop">>, <<"server">>,
        <<"hard", " ", "drive">>, <<"memory">>, <<"ram">>, <<"cpu">>,
        <<"motherboard">>, <<"power", " ", "supply">>, <<"monitor">>,
        <<"keyboard">>, <<"mouse">>, <<"hardware", " ", "failure">>,
        <<"blue", " ", "screen">>, <<"bsod">>, <<"overheating">>,
        <<"fan", " ", "noise">>}
      [] category = "software" ->
        {<<"application">>, <<"program">>, <<"software">>, <<"install">>,
        <<"update">>, <<"patch">>, <<"license">>, <<"crash">>,
        <<"error", " ", "message">>, <<"bug">>,
        <<"feature", " ", "request">>, <<"office">>, <<"excel">>, <<"word">>,
        <<"outlook">>, <<"adobe">>, <<"browser">>}
      [] category = "network" ->
        {<<"internet">>, <<"wifi">>, <<"ethernet">>, <<"connection">>,
        <<"network">>, <<"router">>, <<"switch">>, <<"firewall">>, <<"vpn">>,
        <<"dns">>, <<"dhcp">>, <<"ip", " ", "address">>, <<"bandwidth">>,
        <<"slow", " ", "connection">>, <<"timeout">>, <<"ping">>,
        <<"latency">>}
      [] category = "security" ->
        {<<"virus">>, <<"malware">>, <<"antivirus">>, <<"security">>,
        <<"breach">>, <<"hack">>, <<"phishing">>, <<"spam">>,
        <<"suspicious">>, <<"unauthorized">>, <<"password">>,
        <<"encryption">>, <<"certificate">>, <<"ssl">>,
        <<"firewall", " ", "rule">>}
      [] category = "email" ->
        {<<"email">>, <<"outlook">>, <<"exchange">>, <<"smtp">>, <<"imap">>,
        <<"pop3">>, <<"mail", " ", "server">>, <<"mailbox">>,
        <<"attachment">>, <<"spam", " ", "filter">>,
        <<"email", " ", "delivery">>, <<"bounce">>, <<"undeliverable">>}
      [] category = "backup" ->
        {<<"backup">>, <<"restore">>, <<"recovery">>, <<"data", " ", "loss">>,
        <<"file", " ", "recovery">>, <<"backup", " ", "failure">>,
        <<"tape">>, <<"cloud", " ", "backup">>, <<"snapshot">>,
        <<"disaster", " ", "recovery">>, <<"archive">>}
      [] category = "printer" ->
        {<<"printer">>, <<"print">>, <<"printing">>, <<"toner">>, <<"ink">>,
        <<"paper", " ", "jam">>, <<"print", " ", "queue">>, <<"driver">>,
        <<"scanner">>, <<"fax">>, <<"multifunction">>}
      [] category = "phone" ->
        {<<"phone">>, <<"voip">>, <<"pbx">>, <<"extension">>, <<"voicemail">>,
        <<"call">>, <<"dial", " ", "tone">>, <<"conference">>,
        <<"transfer">>, <<"hold", " ", "music">>}
      [] category = "access" ->
        {<<"access">>, <<"login">>, <<"password">>, <<"account">>,
        <<"permissions">>, <<"locked", " ", "out">>, <<"reset">>,
        <<"authentication">>, <<"authorization">>,
        <<"active", " ", "directory">>, <<"user", " ", "account">>,
        <<"group", " ", "membership">>}
      [] OTHER -> {}

\* TicketTriageService._build_priority_matrix with _calculate_priority
CalculatePriority(urgency, impact) ==
    CASE urgency = "urgent" /\ impact = "high" -> "critical"
      [] urgency = "urgent" /\ impact = "medium" -> "high"
      [] urgency = "urgent" /\ impact = "low" -> "high"
      [] urgency = "high" /\ impact = "high" -> "high"
      [] urgency = "high" /\ impact = "medium" -> "high"
      [] urgency = "high" /\ impact = "low" -> "medium"
      [] urgency = "medium" /\ impact = "high" -> "medium"
      [] urgency = "medium" /\ impact = "medium" -> "medium"
      [] urgency = "medium" /\ impact = "low" -> "low"
      [] urgency = "low" /\ impact = "high" -> "medium"
      [] urgency = "low" /\ impact = "medium" -> "low"
      [] urgency = "low" /\ impact = "low" -> "low"
      [] OTHER -> "medium"

\* hashlib.md5(...).hexdigest(): taken to be free of collisions, so a digest
\* stands for the string that was hashed
Md5(content) == content

\* TicketTriageService._generate_cache_key
GenerateCacheKey(request) ==
    LET content == request.title \o <<"|">> \o request.description \o <<"|">>
                       \o <<Fmt(request.customer_tier)>>
    IN <<"triage:">> \o Md5(content)

\* TicketTriageService._calculate_keyword_confidence
CalculateKeywordConfidence(request, predicted_category) ==
    LET category_keywords == CategoryKeywords(predicted_category)
        matches == Matches(category_keywords, TextOf(request))
    IN IF category_keywords # {}
       THEN Min(Pct(20), (((ConfOne * matches) \div Cardinality(category_keywords)) * 3) \div 10)
       ELSE 0

\* TicketTriageService._validate_and_enhance_ai_result on the dictionary
\* Gemini returned (a missing or null field is None)
ValidateAndEnhanceAiResult(result, request) ==
    LET category0 == IF result.category = None THEN "other" ELSE result.category[1]
        urgency0 == IF result.urgency = None THEN "medium" ELSE result.urgency[1]
        impact0 == IF result.impact = None THEN "medium" ELSE result.impact[1]
        conf0 == IF result.confidence_score = None THEN Pct(50)
                 ELSE result.confidence_score[1]
        valid_categories == TicketCategory
        valid_levels == {"low", "medium", "high", "urgent"}
        category == IF category0 \notin valid_categories THEN "other" ELSE category0
        conf1 == IF category0 \notin valid_categories THEN (conf0 * 8) \div 10 ELSE conf0
        urgency == IF urgency0 \notin valid_levels THEN "medium" ELSE urgency0
        impact == IF impact0 \notin valid_levels THEN "medium" ELSE impact0
        confidence_boost == CalculateKeywordConfidence(request, category)
    IN [category |-> category, urgency |-> urgency, impact |-> impact,
        confidence_score |-> Min(Pct(95), conf1 + confidence_boost)]

\* the category with the highest score, the first one in dictionary order
\* among equals: max(category_scores, key=category_scores.get)
RECURSIVE BestCategory(_, _, _)
BestCategory(text, i, best) ==
    IF i > Len(CategoryOrder) THEN best
    ELSE LET c == CategoryOrder[i]
             score == (ConfOne * Matches(CategoryKeywords(c), text))
                          \div Cardinality(CategoryKeywords(c))
         IN IF score > 0 /\ (best = None \/ score > best[1].score)
            THEN BestCategory(text, i + 1, Some([category |-> c, score |-> score]))
            ELSE BestCategory(text, i + 1, best)

UrgentKeywords == {<<"urgent">>, <<"critical">>, <<"down">>, <<"outage">>,
                   <<"emergency">>, <<"asap">>, <<"immediately">>}

\* TicketTriageService._fallback_classification
FallbackClassification(request) ==
    LET text == TextOf(request)
        best == BestCategory(text, 1, None)
        category == IF best # None THEN best[1].category ELSE "other"
        confidence == IF best # None THEN Min(Pct(80), best[1].score * 2) ELSE Pct(30)
        urgent == AnyKwIn(UrgentKeywords, text) \/ category = "security"
        urgency == IF urgent THEN "urgent" ELSE "medium"
        impact == IF urgent THEN "high" ELSE "medium"
    IN [category |-> category, urgency |-> urgency, impact |-> impact,
        confidence_score |-> confidence]

\* TicketTriageService._classify_with_ai: Gemini's answer validated, or the
\* rule-based classification when Gemini gave none
ClassifyWithAi(request, gemini) ==
    IF gemini # None
    THEN ValidateAndEnhanceAiResult(gemini[1], request)
    ELSE FallbackClassification(request)

\* TicketTriageService._enhance_with_rules; Urgency(...) and Impact(...)
\* raise ValueError on a value outside the enumeration
EnhanceWithRules(ai_result, request) ==
    LET premium == request.customer_tier = Some("premium")
        urgency1 == IF premium /\ ai_result.urgency = "medium" THEN "high"
                    ELSE ai_result.urgency
        impact1 == IF premium /\ ai_result.impact = "low" THEN "medium"
                   ELSE ai_result.impact
        security == ai_result.category = "security"
        urgency == IF security THEN "urgent" ELSE urgency1
        impact == IF security /\ impact1 = "low" THEN "medium" ELSE impact1
    IN IF urgency \in Urgency /\ impact \in Impact
       THEN [raises |-> FALSE,
             value |-> [category |-> ai_result.category, urgency |-> urgency,
                        impact |-> impact,
                        priority |-> CalculatePriority(urgency, impact),
                        confidence_score |-> ai_result.confidence_score]]
       ELSE [raises |-> TRUE,
             value |-> [category |-> ai_result.category, urgency |-> urgency,
                        impact |-> impact, priority |-> "medium",
                        confidence_score |-> ai_result.confidence_score]]

\* TicketTriageService.triage_ticket, lines 351-361: the dictionary the
\* TriageResult is built from
BuildTriageResult(request, enhanced_result) ==
    [ticket_id |-> Some(request.ticket_id),
     category |-> enhanced_result.category,
     priority |-> enhanced_result.priority,
     urgency |-> enhanced_result.urgency,
     impact |-> enhanced_result.impact,
     confidence_score |-> enhanced_result.confidence_score,
     fallback_mode |-> FALSE]

----------------------------------------------------------------------------
(* The /ai/triage handler (main.py) *)

\* main.py, lines 163-217: the models and services imported ("real"), or
\* the mock ones defined when the import failed ("mock")
Modes == {"real", "mock"}

TicketIds == {"", "T1", "T2"}

Ticket(ticket_id, title, description, customer_tier) ==
    [ticket_id |-> ticket_id, title |-> title, description |-> description,
     customer_tier |-> customer_tier]

\* validated requests (TicketTriageRequest): an empty one, two whose
\* title and description differ around a bar, one reporting an outage and
\* the same under another ticket_id, one reporting a virus
TicketInputs ==
    {Ticket("", <<>>, <<>>, None),
     Ticket("T1", <<"a", "|">>, <<>>, None),
     Ticket("T2", <<"a">>, <<"|">>, None),
     Ticket("T1", <<"outage">>, <<>>, Some("premium")),
     Ticket("T2", <<"outage">>, <<>>, Some("premium")),
     Ticket("T1", <<>>, <<"virus">>, None)}

\* the answers of gemini_client.classify_ticket: None, the mock response of
\* a client without API key, and dictionaries a model may return
GeminiMockResponse ==
    [category |-> Some("software"), urgency |-> Some("medium"),
     impact |-> Some("medium"), confidence_score |-> Some(Pct(75))]

GeminiResponses ==
    {None, Some(GeminiMockResponse),
     Some([category |-> Some("security"), urgency |-> Some("low"),
           impact |-> Some("low"), confidence_score |-> Some(Pct(90))]),
     Some([category |-> Some("database"), urgency |-> Some("critical"),
           impact |-> Some("critical"), confidence_score |-> None]),
     Some([category |-> Some("network"), urgency |-> Some("high"),
           impact |-> Some("urgent"), confidence_score |-> Some(Pct(90))]),
     Some([category |-> Some("hardware"), urgency |-> Some("low"),
           impact |-> Some("low"), confidence_score |-> Some(Pct(-50))])}

\* MockTriageService.triage_ticket: random.uniform(0.7, 0.95), two decimals
MockConfidences == {Pct(70), Pct(79), Pct(95)}

NoResult ==
    [ticket_id |-> None, category |-> "", priority |-> "", urgency |-> "",
     impact |-> "", confidence_score |-> 0, fallback_mode |-> FALSE]

\* _emergency_triage_fallback
EmergencyTriageFallback(request) ==
    LET text == TextOf(request)
        category ==
            IF AnyKwIn({<<"password">>, <<"login">>, <<"access">>, <<"account">>}, text)
            THEN "access"
            ELSE IF AnyKwIn({<<"email">>, <<"outlook">>, <<"mail">>}, text)
            THEN "email"
            ELSE IF AnyKwIn({<<"network">>, <<"internet">>, <<"connection">>, <<"wifi">>}, text)
            THEN "network"
            ELSE IF AnyKwIn({<<"computer">>, <<"laptop">>, <<"hardware">>, <<"screen">>}, text)
            THEN "hardware"
            ELSE IF AnyKwIn({<<"software">>, <<"application">>, <<"program">>, <<"install">>}, text)
            THEN "software"
            ELSE IF AnyKwIn({<<"virus">>, <<"security">>, <<"malware">>, <<"hack">>}, text)
            THEN "security"
            ELSE "other"
        priority ==
            IF AnyKwIn({<<"urgent">>, <<"critical">>, <<"emergency">>, <<"down">>,
                        <<"outage">>}, text)
            THEN "high"
            ELSE IF AnyKwIn({<<"minor">>, <<"low">>, <<"when", " ", "possible">>}, text)
            THEN "low"
            ELSE "medium"
    IN [ticket_id |-> None, category |-> category, priority |-> priority,
        urgency |-> "medium", impact |-> "medium",
        confidence_score |-> Pct(40), fallback_mode |-> TRUE]

\* TriageResponse(...) as the handler builds it
Response(success, result, error, cached) ==
    [kind |-> "response", success |-> success, result |-> result,
     error |-> error, cached |-> cached]

\* an exception leaving the handler
Escaped == [kind |-> "exception", success |-> FALSE, result |-> None,
            error |-> <<>>, cached |-> FALSE]

\* TriageResponse validates its result against TriageResult when the models
\* were imported; the mock TriageResponse takes any dictionary
ResponseValidates(m, result) == m = "mock" \/ ValidTriageResult(result)

\* triage_ticket, lines 277-286: except ValueError
OnValueError(message) ==
    Response(FALSE, None, <<"Invalid input: ", message>>, FALSE)

\* triage_ticket, lines 288-307: except Exception, with the emergency
\* fallback and the bare except around it
OnException_NoInnerExcept(m, request) ==
    LET fallback_result == EmergencyTriageFallback(request)
    IN IF ResponseValidates(m, fallback_result)
       THEN Response(TRUE, Some(fallback_result), <<>>, FALSE)
       ELSE Escaped

OnException(m, request) ==
    LET fallback_result == EmergencyTriageFallback(request)
    IN IF ResponseValidates(m, fallback_result)
       THEN Response(TRUE, Some(fallback_result), <<>>, FALSE)
       ELSE Response(FALSE, None, <<"AI service temporarily unavailable">>, FALSE)

\* triage_ticket, lines 254-275, on the value the service returned.  With
\* the imported service that value is a TriageResult, which has no get():
\* AttributeError.  With the mock service it is a dictionary; the handler
\* marks it and then calls cache.set(..., expire=1800), a keyword that
\* RedisCache.set does not take: TypeError.
AfterService(m, request, confidence_score) ==
    IF m = "real"
    THEN OnException(m, request)
    ELSE LET requires_manual_review == confidence_score < Pct(60)
             fallback_used == confidence_score < Pct(80)
         IN OnException(m, request)

IdleReq ==
    [pc |-> "idle",
     input |-> [ticket_id |-> "", title |-> <<>>, description |-> <<>>,
                customer_tier |-> None],
     built |-> NoResult, resp |-> None, raised |-> FALSE, svc |-> None,
     path |-> "", hit |-> None, prior |-> FALSE, ai |-> None, built_ok |-> FALSE]

\* the handler coroutines in flight: a pair, so that every interleaving of
\* two requests is covered
RIds == {1, 2}

MainCacheTTL == 1800
TriageCacheTTL == 3600

TriageKeys == {GenerateCacheKey(i) : i \in TicketInputs}

\* RedisCache.get: None without a client, else the live value of the key
RedisGet(store, key, t) ==
    IF redisUp /\ RedisLive(store[key], t) THEN Some(store[key][1]) ELSE None

\* RedisCache.set: SETEX key ttl value, nothing without a client
RedisSet(store, key, entry, ttl, t) ==
    IF redisUp
    THEN [store EXCEPT ![key] = Some([entry EXCEPT !.expires_at = t + ttl])]
    ELSE store

TriageInit ==
    /\ mainCache = [i \in TicketIds |-> None]
    /\ triageCache = [k \in TriageKeys |-> None]
    /\ reqs = [r \in RIds |-> IdleReq]
    /\ okAt = [i \in TicketIds |-> None]
    /\ overlap = FALSE

\* what the completion of request r leaves in the history
Complete(r, req) ==
    /\ reqs' = [reqs EXCEPT ![r] = req]
    /\ okAt' = IF req.resp[1].kind = "response" /\ req.resp[1].success
               THEN [okAt EXCEPT ![req.input.ticket_id] = Some(now)]
               ELSE okAt

\* triage_ticket, lines 233-249: the handler up to the answer of cache.get
TriageBegin(r, input) ==
    /\ reqs[r].pc = "idle"
    /\ \A q \in RIds : q < r => reqs[q].pc # "idle"
    /\ overlap' = (overlap \/ \E q \in RIds : reqs[q].pc \notin {"idle", "done"})
    /\ LET cache_key == input.ticket_id
           cached_result == RedisGet(mainCache, cache_key, now)
           req == [reqs[r] EXCEPT
                      !.input = input,
                      !.prior = (okAt[input.ticket_id] # None
                                 /\ now - okAt[input.ticket_id][1] < MainCacheTTL)]
       IN IF cached_result # None
          THEN Complete(r, [req EXCEPT
                   !.pc = "done", !.path = "main_cache",
                   !.resp = Some(Response(TRUE, Some(cached_result[1].value), <<>>, TRUE))])
          ELSE /\ reqs' = [reqs EXCEPT ![r] =
                              [req EXCEPT !.pc = IF mode = "real" THEN "svc_get"
                                                 ELSE "mock_svc"]]
               /\ UNCHANGED okAt
    /\ UNCHANGED <<mode, mainCache, triageCache, clockVars, notTriage>>

\* TicketTriageService.triage_ticket, lines 336-342: the answer of
\* redis_cache.get; on a hit the service returns and the handler goes on
SvcCacheGet(r) ==
    /\ reqs[r].pc = "svc_get"
    /\ LET request == reqs[r].input
           cached_result == RedisGet(triageCache, GenerateCacheKey(request), now)
       IN IF cached_result # None
          THEN Complete(r, [reqs[r] EXCEPT
                   !.pc = "done", !.path = "cache", !.raised = TRUE,
                   !.svc = Some(cached_result[1].value),
                   !.hit = Some(cached_result[1].by),
                   !.resp = Some(AfterService(mode, request,
                                     cached_result[1].value.confidence_score))])
          ELSE /\ reqs' = [reqs EXCEPT ![r].pc = "svc_ai"]
               /\ UNCHANGED okAt
    /\ UNCHANGED <<mode, mainCache, triageCache, overlap, clockVars, notTriage>>

\* TicketTriageService.triage_ticket, lines 344-361: Gemini answers, the
\* classification is enhanced and the TriageResult built; a ValueError
\* leaves the service and is answered by the handler
SvcClassify(r, gemini) ==
    /\ reqs[r].pc = "svc_ai"
    /\ LET request == reqs[r].input
           ai_result == ClassifyWithAi(request, gemini)
           enhanced == EnhanceWithRules(ai_result, request)
           triage_result == BuildTriageResult(request, enhanced.value)
           path == IF gemini # None THEN "ai" ELSE "rule"
           ai == IF gemini # None THEN Some(ai_result) ELSE None
       IN IF enhanced.raises \/ ~ValidTriageResult(triage_result)
          THEN Complete(r, [reqs[r] EXCEPT
                   !.pc = "done", !.path = path, !.raised = TRUE, !.ai = ai,
                   !.resp = Some(OnValueError("not a valid value"))])
          ELSE /\ reqs' = [reqs EXCEPT ![r] =
                              [@ EXCEPT !.pc = "svc_set", !.path = path, !.ai = ai,
                                        !.built = triage_result, !.built_ok = TRUE]]
               /\ UNCHANGED okAt
    /\ UNCHANGED <<mode, mainCache, triageCache, overlap, clockVars, notTriage>>

\* TicketTriageService.triage_ticket, lines 363-369, and the handler on the
\* TriageResult the service returns
SvcCacheSet(r) ==
    /\ reqs[r].pc = "svc_set"
    /\ LET request == reqs[r].input
           entry == [value |-> reqs[r].built, expires_at |-> 0,
                     by |-> <<request.title, request.description, request.customer_tier>>]
       IN /\ triageCache' = RedisSet(triageCache, GenerateCacheKey(request), entry,
                                     TriageCacheTTL, now)
          /\ Complete(r, [reqs[r] EXCEPT
                 !.pc = "done", !.raised = TRUE, !.svc = Some(reqs[r].built),
                 !.resp = Some(AfterService(mode, request,
                                            reqs[r].built.confidence_score))])
    /\ UNCHANGED <<mode, mainCache, overlap, clockVars, notTriage>>

\* MockTriageService.triage_ticket and the handler on the dictionary it
\* returns
MockService(r, confidence_score) ==
    /\ reqs[r].pc = "mock_svc"
    /\ Complete(r, [reqs[r] EXCEPT
           !.pc = "done", !.path = "mock", !.raised = TRUE,
           !.resp = Some(AfterService(mode, reqs[r].input, confidence_score))])
    /\ UNCHANGED <<mode, mainCache, triageCache, overlap, clockVars, notTriage>>

\* time passes, in steps of the shorter cache lifetime; Redis drops the
\* keys whose expiry time has come
TriageTick ==
    /\ ticks < MaxTicks
    /\ now' = now + MainCacheTTL
    /\ ticks' = ticks + 1
    /\ triageCache' = [k \in TriageKeys |->
                          IF RedisLive(triageCache[k], now') THEN triageCache[k] ELSE None]
    /\ mainCache' = [i \in TicketIds |->
                          IF RedisLive(mainCache[i], now') THEN mainCache[i] ELSE None]
    /\ okAt' = [i \in TicketIds |->
                    IF okAt[i] # None /\ now' - okAt[i][1] < MainCacheTTL
                    THEN okAt[i] ELSE None]
    /\ UNCHANGED <<mode, reqs, overlap, notTriage>>

----------------------------------------------------------------------------
(* Ticket classification (services/tensorflow_models.py) and the           *)
(* /ai/classify-ticket-advanced handler of main.py                          *)

\* TicketClassificationModel._fallback_classification: category_keywords
TfCategoryOrder == <<"hardware", "software", "network", "security", "email", "database", "printer", "phone", "access", "other">>

TfCategoryKeywords(category) ==
    CASE category = "hardware" ->
        {<<"computer">>, <<"laptop">>, <<"server">>, <<"hardware">>,
        <<"device">>}
      [] category = "software" ->
        {<<"software">>, <<"application">>, <<"program">>, <<"install">>,
        <<"update">>}
      [] category = "network" ->
        {<<"network">>, <<"internet">>, <<"wifi">>, <<"connection">>,
        <<"router">>}
      [] category = "security" ->
        {<<"security">>, <<"virus">>, <<"malware">>, <<"breach">>,
        <<"password">>}
      [] category = "email" ->
        {<<"email">>, <<"outlook">>, <<"mail">>, <<"smtp">>, <<"exchange">>}
      [] category = "database" ->
        {<<"database">>, <<"sql">>, <<"query">>, <<"data">>, <<"backup">>}
      [] category = "printer" ->
        {<<"printer">>, <<"print">>, <<"toner">>, <<"paper">>, <<"scan">>}
      [] category = "phone" ->
        {<<"phone">>, <<"voip">>, <<"call">>, <<"extension">>, <<"pbx">>}
      [] category = "access" ->
        {<<"access">>, <<"login">>, <<"account">>, <<"permission">>,
        <<"user">>}
      [] OTHER -> {}

\* the dictionaries classify_ticket and the handler return
ClsResult(success, predicted_category, confidence_score, model_type, error) ==
    [success |-> success, predicted_category |-> predicted_category,
     confidence_score |-> confidence_score, model_type |-> model_type,
     error |-> error]

\* max(scores, key=scores.get): the first category in dictionary order among
\* those with the highest score
RECURSIVE TfBestCategory(_, _, _)
TfBestCategory(text, i, best) ==
    IF i > Len(TfCategoryOrder) THEN best
    ELSE LET c == TfCategoryOrder[i]
             score == (ConfOne * Matches(TfCategoryKeywords(c), text))
                          \div Max(1, Cardinality(TfCategoryKeywords(c)))
         IN IF best = None \/ score > best[1].score
            THEN TfBestCategory(text, i + 1, Some([category |-> c, score |-> score]))
            ELSE TfBestCategory(text, i + 1, best)

\* TicketClassificationModel._fallback_classification
TfFallbackClassification(title, description) ==
    LET text == title \o <<" ">> \o description
        best == TfBestCategory(text, 1, None)[1]
        predicted_category == IF best.score > 0 THEN best.category ELSE "other"
        confidence == IF best.score > 0 THEN best.score ELSE 0
    IN ClsResult(TRUE, Some(predicted_category), Some(confidence),
                 Some("fallback_keyword_based"), None)

\* the objects main.py can bind to ticket_classification_model: the
\* TicketClassificationModel as _build_model leaves it (no model when keras
\* is missing or the build fails, a new untrained model, a model loaded from
\* model_path), or the MockService when the import of the services fails
TfModels ==
    {[kind |-> "TicketClassificationModel", model |-> None, is_trained |-> FALSE],
     [kind |-> "TicketClassificationModel", model |-> Some("new"), is_trained |-> FALSE],
     [kind |-> "TicketClassificationModel", model |-> Some("loaded"), is_trained |-> TRUE],
     [kind |-> "MockService", model |-> None, is_trained |-> FALSE]}

\* what self.model.predict does: it raises, or yields a distribution whose
\* largest entry is the given category with the given probability
TfPredictions ==
    {[raises |-> TRUE, category |-> "other", confidence |-> 0]}
        \cup {[raises |-> FALSE, category |-> c, confidence |-> p] :
                c \in {"hardware", "other"}, p \in {Pct(50), Pct(90)}}

\* TicketClassificationModel.classify_ticket with the fallback disabled for a
\* missing or untrained model
TfClassifyTicket_NoFallback(self, title, description, prediction) ==
    IF ~self.is_trained \/ self.model = None
    THEN ClsResult(FALSE, None, None, None, Some("model not trained"))
    ELSE IF prediction.raises
    THEN TfFallbackClassification(title, description)
    ELSE ClsResult(TRUE, Some(prediction.category), Some(prediction.confidence),
                   Some("tensorflow_cnn"), None)

\* TicketClassificationModel.classify_ticket
TfClassifyTicket(self, title, description, prediction) ==
    IF ~self.is_trained \/ self.model = None
    THEN TfFallbackClassification(title, description)
    ELSE IF prediction.raises
    THEN TfFallbackClassification(title, description)
    ELSE ClsResult(TRUE, Some(prediction.category), Some(prediction.confidence),
                   Some("tensorflow_cnn"), None)

\* main.py, MockService.classify_ticket
MockClassifyTicket ==
    ClsResult(FALSE, None, None, None,
              Some("TensorFlow not available - install with: python install_ml_dependencies.py"))

\* the titles and descriptions of the classification requests
ClsTitles == {<<>>, <<"a">>, <<"server">>, <<"password">>, <<"printer", " ", "email">>}
ClsDescriptions == {<<>>, <<"a">>, <<"email">>, <<"virus">>}

ClsInit(m) ==
    /\ ticket_classification_model = m
    /\ clsLast = None

\* POST /ai/classify-ticket-advanced; json_ok is whether request.json()
\* yields the body
ClassifyTicketAdvanced(json_ok, title, description, prediction) ==
    LET called == json_ok /\ ~(title = <<>> /\ description = <<>>)
        result ==
            IF ~json_ok
            THEN ClsResult(FALSE, None, None, None,
                           Some("TensorFlow classification service temporarily unavailable"))
            ELSE IF title = <<>> /\ description = <<>>
            THEN ClsResult(FALSE, None, None, None,
                           Some("Title or description is required for classification"))
            ELSE IF ticket_classification_model.kind = "MockService"
            THEN MockClassifyTicket
            ELSE TfClassifyTicket(ticket_classification_model, title, description,
                                  prediction)
    IN /\ clsLast' = Some([title |-> title, description |-> description,
                           called |-> called, result |-> result])
       /\ UNCHANGED <<ticket_classification_model, notClassify>>

----------------------------------------------------------------------------
(* Feedback collection (services/feedback_service.py) over Redis *)

\* the feedback type collect_triage_feedback submits; collect_sla_feedback
\* and collect_resolution_feedback differ from it in the type and in the
\* prefix of the feedback id only
FeedbackTypes == {"triage_accuracy"}

\* FeedbackRating: the values of the ratings submitted
FeedbackRatings == {2, 5}
RatingValues == 1 .. 5

\* ai_prediction.get('confidence_score', 0.0), in hundredths
FbConfidences == {80}

\* AIFeedbackService.__init__: feedback_cache_ttl, 30 days
FeedbackCacheTTL == 86400 * 30

\* _store_feedback keeps the last 1000 ids of the list
FbListMax == 1000

\* an average rating is a whole number of units, AvgUnit units being 1.0
AvgUnit == 60

FbProcIds == {1, 2}
FbStoreKeys == {"feedback_list", "model_metrics"} \X FeedbackTypes

\* _update_model_metrics, lines 259-265: the metrics of a type without any
NoMetrics ==
    [total_feedback |-> 0, average_rating |-> 0,
     rating_distribution |-> [i \in RatingValues |-> 0],
     confidence_accuracy |-> 0]

NoFeedback == [type |-> "", rating |-> 0, confidence_score |-> 0, id |-> <<>>]

FbIdle == [pc |-> "idle", feedback |-> NoFeedback, current_metrics |-> NoMetrics]

FbNoHist ==
    [count |-> 0, sum |-> 0, dist |-> [i \in RatingValues |-> 0],
     overlapped |-> FALSE, failed |-> FALSE, expired |-> FALSE]

FbInit ==
    /\ fbStored = {}
    /\ fbStore = [k \in FbStoreKeys |-> None]
    /\ fbProcs = [p \in FbProcIds |-> FbIdle]
    /\ fbBegun = 0
    /\ fbHist = [t \in FeedbackTypes |-> FbNoHist]

Abs(x) == IF x < 0 THEN -x ELSE x

\* _update_model_metrics, lines 267-283, taking the mean of the stored
\* average and the new rating
UpdateModelMetrics_Halving(current_metrics, new_rating, confidence_score) ==
    [total_feedback |-> current_metrics.total_feedback + 1,
     average_rating |-> (current_metrics.average_rating + new_rating * AvgUnit) \div 2,
     rating_distribution |->
         [current_metrics.rating_distribution EXCEPT ![new_rating] = @ + 1],
     confidence_accuracy |-> 100 - Abs(confidence_score - new_rating * 20)]

\* _update_model_metrics, lines 267-283: the metrics with one more rating
UpdateModelMetrics(current_metrics, new_rating, confidence_score) ==
    LET total_feedback == current_metrics.total_feedback
        current_avg == current_metrics.average_rating
        new_avg == ((current_avg * total_feedback) + new_rating * AvgUnit)
                       \div (total_feedback + 1)
    IN [total_feedback |-> total_feedback + 1,
        average_rating |-> new_avg,
        rating_distribution |->
            [current_metrics.rating_distribution EXCEPT ![new_rating] = @ + 1],
        confidence_accuracy |-> 100 - Abs(confidence_score - new_rating * 20)]

\* RedisCache.get and RedisCache.set on the feedback keys; ok = FALSE: the
\* client raised, get returns None and set stores nothing
FbGet(key, ok) ==
    IF ok THEN RedisGet(fbStore, key, now) ELSE None

FbSet(key, value, ok) ==
    IF ok
    THEN RedisSet(fbStore, key, [value |-> value, expires_at |-> 0],
                  FeedbackCacheTTL, now)
    ELSE fbStore

FbFailed(type, ok) ==
    [fbHist EXCEPT ![type].failed = @ \/ (redisUp /\ ~ok)]

\* collect_*_feedback up to the first Redis call of _update_model_metrics:
\* the feedback is built and _store_feedback runs, SETEX feedback:<id>, GET
\* and SETEX of the feedback list.  These three calls touch no key that
\* _update_model_metrics reads or writes.
FbCollect(p, type, ticket_id, rating, confidence_score, ok) ==
    /\ fbProcs[p].pc = "idle"
    /\ \A q \in FbProcIds : q < p => fbProcs[q].pc # "idle"
    /\ fbBegun < MaxFeedback
    /\ fbBegun' = fbBegun + 1
    /\ LET id == <<type, ticket_id, now>>
           feedback == [type |-> type, rating |-> rating,
                        confidence_score |-> confidence_score, id |-> id]
           list_key == <<"feedback_list", type>>
           got == FbGet(list_key, ok)
           feedback_list == IF got # None /\ got[1].value # <<>>
                            THEN got[1].value ELSE <<>>
           appended == Append(feedback_list, id)
           kept == IF Len(appended) > FbListMax
                   THEN SubSeq(appended, Len(appended) - FbListMax + 1, Len(appended))
                   ELSE appended
       IN /\ fbProcs' = [fbProcs EXCEPT ![p] =
                            [FbIdle EXCEPT !.pc = "metrics_get", !.feedback = feedback]]
          /\ fbStored' = IF redisUp /\ ok
                         THEN {e \in fbStored : e.id # id}
                                  \cup {[id |-> id, expires_at |-> now + FeedbackCacheTTL]}
                         ELSE fbStored
          /\ fbStore' = FbSet(list_key, kept, ok)
    /\ fbHist' = [fbHist EXCEPT ![type].overlapped =
                     @ \/ \E q \in FbProcIds :
                              q # p /\ fbProcs[q].pc # "idle"
                                    /\ fbProcs[q].feedback.type = type]
    /\ UNCHANGED <<clockVars, notFeedback>>

\* _update_model_metrics, lines 260-266: the answer of
\* redis_cache.get(metrics_key), or the metrics of a type without any
FbMetricsGet(p, ok) ==
    /\ fbProcs[p].pc = "metrics_get"
    /\ LET type == fbProcs[p].feedback.type
           got == FbGet(<<"model_metrics", type>>, ok)
           current_metrics == IF got # None THEN got[1].value ELSE NoMetrics
       IN /\ fbProcs' = [fbProcs EXCEPT ![p].pc = "metrics_set",
                                        ![p].current_metrics = current_metrics]
          /\ fbHist' = FbFailed(type, ok)
    /\ UNCHANGED <<fbStored, fbStore, fbBegun, clockVars, notFeedback>>

\* _update_model_metrics, lines 267-285: the metrics are updated and
\* written back, and collect_*_feedback returns the feedback id
FbMetricsSet(p, ok) ==
    /\ fbProcs[p].pc = "metrics_set"
    /\ LET feedback == fbProcs[p].feedback
           type == feedback.type
           current_metrics == UpdateModelMetrics(fbProcs[p].current_metrics,
                                                 feedback.rating,
                                                 feedback.confidence_score)
       IN /\ fbStore' = FbSet(<<"model_metrics", type>>, current_metrics, ok)
          /\ fbHist' = [FbFailed(type, ok) EXCEPT
                           ![type].count = @ + 1,
                           ![type].sum = @ + feedback.rating,
                           ![type].dist = [@ EXCEPT ![feedback.rating] = @ + 1]]
    /\ fbProcs' = [fbProcs EXCEPT ![p] = FbIdle]
    /\ UNCHANGED <<fbStored, fbBegun, clockVars, notFeedback>>

\* time passes, half the lifetime of the feedback keys at a time; Redis
\* drops the keys whose expiry time has come
FbTickSteps == {FeedbackCacheTTL \div 2}

FbTick ==
    /\ ticks < MaxTicks
    /\ \E d \in FbTickSteps : now' = now + d
    /\ ticks' = ticks + 1
    /\ fbStored' = {e \in fbStored : now' < e.expires_at}
    /\ fbStore' = [k \in FbStoreKeys |->
                      IF RedisLive(fbStore[k], now') THEN fbStore[k] ELSE None]
    /\ fbHist' = [t \in FeedbackTypes |->
                     [fbHist[t] EXCEPT !.expired =
                         @ \/ (/\ fbStore[<<"model_metrics", t>>] # None
                               /\ ~RedisLive(fbStore[<<"model_metrics", t>>], now'))]]
    /\ UNCHANGED <<fbProcs, fbBegun, notFeedback>>

----------------------------------------------------------------------------
(* Workload optimization (services/workload_optimizer.py) and the           *)
(* /ai/optimize-workload handler of main.py                                 *)

\* OptimizationGoal, in the order of the enumeration
OptimizationGoal == {"efficiency", "balance", "sla_compliance", "skill_development",
                     "wellness"}

\* a weight is a whole number of units, WeightOne units being 1.0; a score
\* is a whole number of units, ScoreOne units being 1.0
WeightOne == 600
ScoreOne == 1000000

\* WorkloadOptimizer.__init__: 0.3, 0.25, 0.25, 0.1, 0.1
InitialWeights ==
    [g \in OptimizationGoal |->
        CASE g = "efficiency" -> (3 * WeightOne) \div 10
          [] g = "balance" -> WeightOne \div 4
          [] g = "sla_compliance" -> WeightOne \div 4
          [] OTHER -> WeightOne \div 10]

SeqRange(seq) == {seq[i] : i \in 1 .. Len(seq)}

\* WorkloadOptimizer._update_optimization_weights
UpdateOptimizationWeights(weights, optimization_goals) ==
    IF optimization_goals = <<>>
    THEN weights
    ELSE LET total_goals == Len(optimization_goals)
             base_weight == WeightOne \div total_goals
         IN [g \in OptimizationGoal |->
                IF g \in SeqRange(optimization_goals)
                THEN base_weight ELSE base_weight \div 10]

\* the technicians and tickets of a request, with the fields the profiles
\* read; the fields left out take the defaults of _create_technician_profile
\* and _create_ticket_profile (skill level 5.0, experience_level 5.0,
\* availability_hours 8.0, no preferred types, estimated_time 120)
Technician(technician_id, skills, current_workload, max_capacity, burnout, goals) ==
    [technician_id |-> technician_id, skills |-> skills,
     current_workload |-> current_workload, max_capacity |-> max_capacity,
     burnout_tenths |-> burnout, learning_goals |-> goals]

PendingTicket(ticket_id, required_skills, priority, learning_opportunity, sla_hours) ==
    [ticket_id |-> ticket_id, required_skills |-> required_skills,
     priority |-> priority, learning_opportunity |-> learning_opportunity,
     sla_hours |-> sla_hours]

DefaultEstimatedTime == 120

\* WorkloadOptimizer._priority_score
PriorityScore(priority) ==
    CASE priority = "low" -> 1
      [] priority = "medium" -> 2
      [] priority = "high" -> 3
      [] priority \in {"critical", "urgent"} -> 4
      [] OTHER -> 2

\* WorkloadOptimizer._calculate_skill_match, every skill level being 5.0
CalculateSkillMatch(tech, ticket) ==
    IF ticket.required_skills = {}
    THEN ScoreOne \div 2
    ELSE LET skill_overlap == tech.skills \cap ticket.required_skills
             basic_score == (Cardinality(skill_overlap) * ScoreOne)
                                \div Cardinality(ticket.required_skills)
             skill_level_bonus == ScoreOne \div 2
         IN IF skill_overlap # {}
            THEN Min(ScoreOne, basic_score + skill_level_bonus)
            ELSE basic_score

\* _calculate_workload_score with the scores of the busiest ranges exchanged
CalculateWorkloadScore_Reversed(tech, additional_workload) ==
    LET minutes == tech.current_workload * 60 + additional_workload
        capacity == tech.max_capacity * 60
    IN IF minutes * 10 < capacity * 5 THEN (7 * ScoreOne) \div 10
       ELSE IF minutes * 10 < capacity * 8 THEN (2 * ScoreOne) \div 10
       ELSE IF minutes * 10 < capacity * 9 THEN (6 * ScoreOne) \div 10
       ELSE ScoreOne
\* WorkloadOptimizer._calculate_workload_score; additional_workload is in
\* minutes, utilization = (current_workload + additional_workload / 60) /
\* max_capacity compared with 0.5, 0.8 and 0.9
CalculateWorkloadScore(tech, additional_workload) ==
    LET minutes == tech.current_workload * 60 + additional_workload
        capacity == tech.max_capacity * 60
    IN IF minutes * 10 < capacity * 5 THEN (7 * ScoreOne) \div 10
       ELSE IF minutes * 10 < capacity * 8 THEN ScoreOne
       ELSE IF minutes * 10 < capacity * 9 THEN (6 * ScoreOne) \div 10
       ELSE (2 * ScoreOne) \div 10

\* the score of one technician in _find_best_technician, lines 452-473
CompositeScore(tech, ticket, additional_workload, weights) ==
    LET skill_score == CalculateSkillMatch(tech, ticket)
        workload_score == CalculateWorkloadScore(tech, additional_workload)
        experience_score == ScoreOne \div 2
        availability_score == ScoreOne
        composite0 == (skill_score * 4 + workload_score * 3 + experience_score * 2
                           + availability_score) \div 10
        composite1 == IF weights["wellness"] * 10 > WeightOne * 2
                      THEN (composite0 * (100 - 3 * tech.burnout_tenths)) \div 100
                      ELSE composite0
    IN IF /\ weights["skill_development"] * 10 > WeightOne * 2
          /\ ticket.learning_opportunity
          /\ ticket.required_skills \cap tech.learning_goals # {}
       THEN (composite1 * 12) \div 10
       ELSE composite1

\* the loop of _find_best_technician over technicians[i..]: the id of the
\* technician with the highest score, the first one among equals
RECURSIVE FindBestTechnician(_, _, _, _, _, _)
FindBestTechnician(ticket, technicians, tech_workloads, weights, i, best) ==
    IF i > Len(technicians) THEN best
    ELSE LET tech == technicians[i]
             score == CompositeScore(tech, ticket, tech_workloads[tech.technician_id],
                                     weights)
         IN IF best = None \/ score > best[1].score
            THEN FindBestTechnician(ticket, technicians, tech_workloads, weights, i + 1,
                     Some([technician_id |-> tech.technician_id, score |-> score]))
            ELSE FindBestTechnician(ticket, technicians, tech_workloads, weights, i + 1,
                                    best)

\* the sort key of a ticket: (priority score, seconds to the deadline).  The
\* deadline is sla_hours after the moment the profile was made, so between
\* tickets of different sla_hours the hours decide; the requests considered
\* give tickets of equal priority different sla_hours
TicketBefore(a, b) ==
    \/ PriorityScore(a.priority) < PriorityScore(b.priority)
    \/ /\ PriorityScore(a.priority) = PriorityScore(b.priority)
       /\ a.sla_hours < b.sla_hours

\* sorted(tickets, key=...): the tickets in ascending order of the key,
\* tickets of equal keys in the order of the request
RECURSIVE SortedTickets(_)
SortedTickets(tickets) ==
    IF tickets = <<>> THEN <<>>
    ELSE LET i == CHOOSE i \in 1 .. Len(tickets) :
                      \A j \in 1 .. Len(tickets) :
                          \/ TicketBefore(tickets[i], tickets[j])
                          \/ ~TicketBefore(tickets[j], tickets[i]) /\ i <= j
             rest == [k \in 1 .. Len(tickets) - 1 |->
                         IF k < i THEN tickets[k] ELSE tickets[k + 1]]
         IN <<tickets[i]>> \o SortedTickets(rest)

\* the loop of _generate_initial_assignments over the sorted tickets
RECURSIVE AssignInOrder(_, _, _, _, _)
AssignInOrder(sorted_tickets, technicians, weights, i, assignments) ==
    IF i > Len(sorted_tickets) THEN assignments
    ELSE LET tech_workloads ==
                 [id \in {technicians[k].technician_id : k \in 1 .. Len(technicians)} |->
                     DefaultEstimatedTime
                         * Cardinality({k \in 1 .. Len(assignments) :
                                           assignments[k].technician_id = id})]
             best == FindBestTechnician(sorted_tickets[i], technicians, tech_workloads,
                                        weights, 1, None)
         IN IF best # None
            THEN AssignInOrder(sorted_tickets, technicians, weights, i + 1,
                     Append(assignments,
                            [ticket_id |-> sorted_tickets[i].ticket_id,
                             technician_id |-> best[1].technician_id]))
            ELSE AssignInOrder(sorted_tickets, technicians, weights, i + 1, assignments)

\* WorkloadOptimizer._generate_initial_assignments and the output format of
\* _multi_objective_optimization: ticket_id and technician_id per assignment
GenerateInitialAssignments(technicians, tickets, weights) ==
    AssignInOrder(SortedTickets(tickets), technicians, weights, 1, <<>>)

\* the score of one technician in _basic_workload_optimization; it is
\* negative for a technician loaded beyond capacity
BasicScore(tech, ticket) ==
    LET skill_match ==
            IF ticket.required_skills # {}
            THEN (Cardinality(ticket.required_skills \cap tech.skills) * ScoreOne)
                     \div Cardinality(ticket.required_skills)
            ELSE ScoreOne \div 2
        workload_factor ==
            ScoreOne - (tech.current_workload * ScoreOne) \div tech.max_capacity
        experience_level == ScoreOne \div 2
    IN (skill_match * 5 + workload_factor * 3 + experience_level * 2) \div 10

\* the inner loop of _basic_workload_optimization: best_score starts at -1
RECURSIVE BasicBestTechnician(_, _, _, _)
BasicBestTechnician(ticket, technicians, i, best) ==
    IF i > Len(technicians) THEN best
    ELSE LET score == BasicScore(technicians[i], ticket)
         IN IF score > best.score
            THEN BasicBestTechnician(ticket, technicians, i + 1,
                     [technician_id |-> Some(technicians[i].technician_id),
                      score |-> score])
            ELSE BasicBestTechnician(ticket, technicians, i + 1, best)

\* _basic_workload_optimization: the assignments of the fallback
RECURSIVE BasicWorkloadOptimization(_, _, _, _)
BasicWorkloadOptimization(technicians, pending_tickets, i, assignments) ==
    IF i > Len(pending_tickets) THEN assignments
    ELSE LET best == BasicBestTechnician(pending_tickets[i], technicians, 1,
                         [technician_id |-> None, score |-> -ScoreOne])
         IN IF best.technician_id # None
            THEN BasicWorkloadOptimization(technicians, pending_tickets, i + 1,
                     Append(assignments,
                            [ticket_id |-> pending_tickets[i].ticket_id,
                             recommended_technician_id |-> best.technician_id[1]]))
            ELSE BasicWorkloadOptimization(technicians, pending_tickets, i + 1,
                                           assignments)

\* the requests: technicians with spare capacity, one of them at high risk
\* of burnout, and one loaded far beyond capacity; tickets of different
\* priorities; goals as the request gives them
WoTechnicianLists ==
    {<<>>,
     <<Technician("tech-001", {"network"}, 20, 40, 9, {}),
       Technician("tech-002", {"software"}, 35, 40, 1, {"network"})>>,
     <<Technician("tech-003", {}, 200, 40, 3, {})>>,
     <<Technician("tech-003", {}, 200, 40, 3, {}),
       Technician("tech-001", {"network"}, 20, 40, 9, {})>>,
     <<Technician("tech-004", {"network"}, 38, 40, 3, {}),
       Technician("tech-005", {"network"}, 10, 40, 3, {})>>}

WoTicketLists ==
    {<<>>,
     <<PendingTicket("T1", {}, "high", FALSE, 24)>>,
     <<PendingTicket("T1", {}, "high", FALSE, 24),
       PendingTicket("T2", {"software"}, "low", FALSE, 24)>>,
     <<PendingTicket("T3", {"network"}, "medium", TRUE, 24),
       PendingTicket("T1", {}, "high", FALSE, 24)>>,
     <<PendingTicket("T1", {}, "high", FALSE, 24),
       PendingTicket("T4", {}, "high", FALSE, 4)>>}

WoGoalLists == {<<>>, <<"efficiency", "balance", "sla_compliance">>, <<"wellness">>,
                <<"skill_development", "wellness">>}

WoResponse(success, algorithm, assignments, fallback_mode, error) ==
    [success |-> success, optimization_algorithm |-> algorithm,
     assignments |-> assignments, fallback_mode |-> fallback_mode, error |-> error,
     cached |-> FALSE]

\* the cache key of the handler: the number of technicians, the number of
\* pending tickets and hash(str(optimization_goals)), which tells apart the
\* goal lists considered
WoCacheKey(technicians, pending_tickets, optimization_goals) ==
    <<Len(technicians), Len(pending_tickets), optimization_goals>>

\* cache.get(cache_key): None without a client, else the live value
WoCacheGet(cache_key) ==
    IF redisUp /\ \E e \in workloadCache : e.key = cache_key /\ now < e.expires_at
    THEN Some((CHOOSE e \in workloadCache :
                   e.key = cache_key /\ now < e.expires_at).value)
    ELSE None

WoInit ==
    /\ optimization_weights = InitialWeights
    /\ woLast = None
    /\ workloadCache = {}

\* POST /ai/optimize-workload.  A live entry under the cache key is
\* answered as it is, marked cached.  Otherwise the optimizer runs, and the
\* handler calls cache.set(cache_key, cache_data, expire=900); its cache is
\* the RedisCache, whose set() has no `expire` parameter: TypeError, nothing
\* is written, and `except Exception` answers with
\* _basic_workload_optimization.
OptimizeWorkload(technicians, pending_tickets, optimization_goals) ==
    LET record(computed, response) ==
            Some([technicians |-> technicians, pending_tickets |-> pending_tickets,
                  optimization_goals |-> optimization_goals,
                  computed |-> computed, response |-> response])
        cached_result ==
            WoCacheGet(WoCacheKey(technicians, pending_tickets, optimization_goals))
    IN IF technicians = <<>> \/ pending_tickets = <<>>
       THEN /\ woLast' = record(None, WoResponse(FALSE, "", <<>>, FALSE,
                             Some("Both technicians and pending_tickets are required")))
            /\ UNCHANGED <<optimization_weights, workloadCache, notWorkload>>
       ELSE IF cached_result # None
       THEN /\ woLast' = record(None, [cached_result[1] EXCEPT !.cached = TRUE])
            /\ UNCHANGED <<optimization_weights, workloadCache, notWorkload>>
       ELSE LET weights == UpdateOptimizationWeights(optimization_weights,
                                                     optimization_goals)
                computed == GenerateInitialAssignments(technicians, pending_tickets,
                                                       weights)
                fallback == BasicWorkloadOptimization(technicians, pending_tickets, 1,
                                                      <<>>)
            IN /\ optimization_weights' = weights
               /\ woLast' = record(Some(computed),
                                   WoResponse(TRUE, "basic_skill_based", fallback, TRUE,
                                              None))
               /\ UNCHANGED <<workloadCache, notWorkload>>

----------------------------------------------------------------------------
(* Resolution suggestions (services/resolution_service.py) and the          *)
(* /ai/suggest-resolution handler of main.py                                *)

\* the category of a request: absent (the general template) or one of the
\* fallback templates
RsCategories == {None, Some("software")}

\* a suggestion, as an object or a dictionary, with the fields the handler
\* and the response model read
Suggestion(source_type, title, confidence_score, similarity_score) ==
    [source_type |-> source_type, title |-> title,
     confidence_score |-> confidence_score, similarity_score |-> similarity_score]

\* ResolutionSuggestion: suggestion_id, title, description, confidence_score,
\* similarity_score and source_type are required, the scores within 0 .. 1
ValidResolutionSuggestion(d) ==
    /\ d.similarity_score # None
    /\ d.similarity_score[1] >= 0 /\ d.similarity_score[1] <= Pct(100)
    /\ d.confidence_score >= 0 /\ d.confidence_score <= Pct(100)

\* _create_resolution_from_historical for a ticket found with the given
\* similarity, and _create_resolution_from_ai
HistoricalSuggestion(similarity_score) ==
    Suggestion("historical_ticket", "Similar Issue Resolution",
               Min(Pct(90), similarity_score + Pct(10)), Some(similarity_score))
AiSuggestion(confidence_score) ==
    Suggestion("ai_generated", "AI Resolution", confidence_score, Some(0))

\* _generate_fallback_suggestions: a list without suggestions
GenerateFallbackSuggestions_Empty(category) == <<>>
\* _generate_fallback_suggestions: one suggestion from the template of the
\* category, the general template for any other category; the dictionary
\* has no similarity_score
GenerateFallbackSuggestions(category) ==
    LET c == IF category = None THEN "other" ELSE category[1]
        title == CASE c = "software" -> "Software Issue Resolution"
                   [] c = "hardware" -> "Hardware Issue Resolution"
                   [] c = "network" -> "Network Connectivity Resolution"
                   [] c = "email" -> "Email Issue Resolution"
                   [] OTHER -> "General Issue Resolution"
    IN <<Suggestion("fallback_template", title, Pct(60), None)>>

\* what the embedding search finds for the service (min_similarity 0.7), or
\* its failure, and what _generate_ai_resolution gives
RsSimilar == {"none", "one", "raises"}
RsAi == {"fails", "ok"}
\* how the await of the service ends in the handler: within the 10 seconds
\* or with asyncio.TimeoutError; and how the handler's own search ends
RsWaits == {"done", "timeout"}
RsSearches == {"found", "raises", "timeout"}

RsCacheKey(category) == IF category = None THEN "None" ELSE category[1]
RsCacheKeys == {RsCacheKey(c) : c \in RsCategories}
ResolutionCacheTTL == 1800

\* sorted(key=confidence_score, reverse=True) of at most two suggestions
SortByConfidence(suggestions) ==
    IF Len(suggestions) = 2 /\ suggestions[1].confidence_score < suggestions[2].confidence_score
    THEN <<suggestions[2], suggestions[1]>>
    ELSE suggestions

\* ResolutionSuggestionService.get_resolution_suggestions on a cache miss:
\* the suggestions built, before they are cached and returned
BuildSuggestions(similar, ai) ==
    SortByConfidence(
        (IF similar = "one" THEN <<HistoricalSuggestion(Pct(75))>> ELSE <<>>)
        \o (IF ai = "ok" THEN <<AiSuggestion(Pct(80))>> ELSE <<>>))

RsResponse(success, suggestions, cached, error) ==
    [success |-> success, suggestions |-> suggestions, cached |-> cached,
     error |-> error]

\* `except Exception` of the handler: the fallback suggestions in a
\* ResolutionSuggestionResponse.  The imported model validates every
\* suggestion as a ResolutionSuggestion and raises on the fallback
\* dictionary; the bare except then answers without success.  The mock
\* model takes any dictionaries.
RsOnException(m, category) ==
    LET fallback_suggestions == GenerateFallbackSuggestions(category)
    IN IF m = "mock" \/ \A i \in 1 .. Len(fallback_suggestions) :
                            ValidResolutionSuggestion(fallback_suggestions[i])
       THEN RsResponse(TRUE, fallback_suggestions, FALSE, None)
       ELSE RsResponse(FALSE, <<>>, FALSE, Some("AI service temporarily unavailable"))

RsInit ==
    /\ resolutionMainCache = [k \in RsCacheKeys |-> None]
    /\ resolutionCache = [k \in RsCacheKeys |-> None]
    /\ rsLast = None

\* POST /ai/suggest-resolution.  With the mock models the request has no
\* category and building the cache key raises AttributeError.  With the
\* imported ones the handler gets the suggestions of the service (or the
\* fallback ones after a timeout), searches similar tickets, marks the
\* suggestions and calls cache.set(cache_key, cache_data, expire=cache_ttl),
\* a keyword RedisCache.set does not take: TypeError.  Either way the answer
\* is that of `except Exception`.
SuggestResolution(category, similar, ai, wait, search) ==
    LET key == RsCacheKey(category)
        cached_result == RedisGet(resolutionMainCache, key, now)
        cached_suggestions == RedisGet(resolutionCache, key, now)
        service_hit == cached_suggestions # None /\ cached_suggestions[1].value # <<>>
        built == BuildSuggestions(similar, ai)
        service_sets == /\ mode = "real" /\ cached_result = None /\ wait = "done"
                        /\ ~service_hit /\ similar # "raises"
        record(response, from_service) ==
            Some([category |-> category, similar |-> similar, ai |-> ai,
                  wait |-> wait, search |-> search, from_service |-> from_service,
                  response |-> response])
    IN /\ resolutionCache' =
              IF service_sets
              THEN RedisSet(resolutionCache, key, [value |-> built, expires_at |-> 0],
                            ResolutionCacheTTL, now)
              ELSE resolutionCache
       /\ rsLast' =
              IF mode = "mock"
              THEN record(RsOnException(mode, None), None)
              ELSE IF cached_result # None
              THEN record(RsResponse(TRUE, cached_result[1].value, TRUE, None), None)
              ELSE IF wait = "timeout"
              THEN record(RsOnException(mode, category),
                          Some(GenerateFallbackSuggestions(category)))
              ELSE IF service_hit
              THEN record(RsOnException(mode, category), Some(cached_suggestions[1].value))
              ELSE IF similar = "raises"
              THEN record(RsOnException(mode, category), None)
              ELSE record(RsOnException(mode, category), Some(built))
       /\ UNCHANGED <<resolutionMainCache, clockVars, notResolution>>

\* time passes; Redis drops the keys whose expiry time has come
RsTick ==
    /\ ticks < MaxTicks
    /\ now' = now + ResolutionCacheTTL
    /\ ticks' = ticks + 1
    /\ resolutionCache' = [k \in RsCacheKeys |->
                             IF RedisLive(resolutionCache[k], now')
                             THEN resolutionCache[k] ELSE None]
    /\ UNCHANGED <<resolutionMainCache, rsLast, notResolution>>

----------------------------------------------------------------------------
(* The /ai/predict-sla handler (main.py) *)

SlaTicketIds == {"T1", "T2"}

\* the requests: the ticket, the priority its triage gave (a field of the
\* imported SLAPredictionRequest only) and current_time, which may be absent
SlaRequest(ticket_id, priority, current_time) ==
    [ticket_id |-> ticket_id, priority |-> priority, current_time |-> current_time]

\* the prediction of the handler: breach_probability 0.25, risk_level
\* "medium"
SlaPrediction == [breach_probability |-> Pct(25), risk_level |-> "medium"]

SlaResponse(success, result, cached, error) ==
    [success |-> success, result |-> result, cached |-> cached, error |-> error]

\* cache.get(cache_key): None without a client, else the live value
SlaCacheGet(cache_key) ==
    IF redisUp /\ \E e \in slaCache : e.key = cache_key /\ now < e.expires_at
    THEN Some((CHOOSE e \in slaCache : e.key = cache_key /\ now < e.expires_at).value)
    ELSE None

SlaInit ==
    /\ slaCache = {}
    /\ slaLast = None

\* POST /ai/predict-sla.  With the mock request model current_time is the
\* string of the body, with the imported one it may be None: building the
\* cache key raises AttributeError.  Otherwise the handler looks the key
\* up, takes the fixed prediction and calls cache.set(cache_key, result,
\* expire=300), a keyword RedisCache.set does not take: TypeError.  Both
\* exceptions are answered by `except Exception`.
PredictSla(ticket_id, priority, current_time) ==
    LET request == SlaRequest(ticket_id, priority, current_time)
        failed == SlaResponse(FALSE, None, FALSE, Some("Internal processing error"))
        cached_result == SlaCacheGet(<<ticket_id, current_time>>)
        response ==
            IF mode = "mock" \/ current_time = None THEN failed
            ELSE IF cached_result # None
            THEN SlaResponse(TRUE, cached_result, TRUE, None)
            ELSE LET result == SlaPrediction
                 IN failed
    IN /\ slaLast' = Some([request |-> request, response |-> response])
       /\ UNCHANGED <<slaCache, clockVars, notSla>>

SlaTick == Tick /\ UNCHANGED <<slaVars, notSla>>

----------------------------------------------------------------------------
(* Specifications *)

\* the MockCache alone
InitCache ==
    /\ now = 0 /\ ticks = 0
    /\ McInit
    /\ redisUp = FALSE
    /\ RlInit(1, 2)
    /\ mode = "real" /\ TriageInit
    /\ ClsInit([kind |-> "MockService", model |-> None, is_trained |-> FALSE])
    /\ FbInit
    /\ WoInit
    /\ RsInit
    /\ SlaInit

NextCache ==
    \/ \E k \in McKeys : McGet(k)
    \/ \E k \in McKeys, v \in McValues, t \in McTTLs, e \in McExpires : McSet(k, v, t, e)
    \/ \E k \in McKeys : McDelete(k)
    \/ \E k \in McKeys, t \in McTTLs : McIncrement(k, 1, t)
    \/ McTick

SpecCache == InitCache /\ [][NextCache]_vars

\* the MockCache holding two keys
McFrameKeys == {"k1", "k2"}
McFrameTTLs == {Some(2)}

InitCacheFrame ==
    /\ now = 0 /\ ticks = 0
    /\ mcache = [k \in McFrameKeys |-> None]
    /\ mcLastSet = [k \in McFrameKeys |-> None]
    /\ mcGot = None
    /\ redisUp = FALSE
    /\ RlInit(1, 2)
    /\ mode = "real" /\ TriageInit
    /\ ClsInit([kind |-> "MockService", model |-> None, is_trained |-> FALSE])
    /\ FbInit
    /\ WoInit
    /\ RsInit
    /\ SlaInit

NextCacheFrame ==
    \/ \E k \in McFrameKeys : McGet(k)
    \/ \E k \in McFrameKeys, v \in McValues, t \in McFrameTTLs : McSet(k, v, t, None)
    \/ \E k \in McFrameKeys : McDelete(k)
    \/ \E k \in McFrameKeys, t \in McFrameTTLs : McIncrement(k, 1, t)
    \/ McTick

SpecCacheFrame == InitCacheFrame /\ [][NextCacheFrame]_vars

\* the rate limiter middleware over Redis
InitRate ==
    /\ now = 0 /\ ticks = 0
    /\ McInit
    /\ redisUp \in BOOLEAN
    /\ \E l \in RlLimits, w \in RlWindows : RlInit(l, w)
    /\ mode = "real" /\ TriageInit
    /\ ClsInit([kind |-> "MockService", model |-> None, is_trained |-> FALSE])
    /\ FbInit
    /\ WoInit
    /\ RsInit
    /\ SlaInit

NextRate ==
    \/ \E i \in RlIdentifiers, p \in RlPaths : RlArrive(i, p)
    \/ \E k \in RlKeys, ok \in BOOLEAN : RlIncrement(k, ok)
    \/ RlTick

SpecRate == InitRate /\ [][NextRate]_vars

\* the rate limiter in front of requests that carry their headers
InitRateUsers ==
    /\ now = 0 /\ ticks = 0
    /\ McInit
    /\ redisUp \in BOOLEAN
    /\ \E l \in RlLimits, w \in RlWindows : RlUserInit(l, w)
    /\ mode = "real" /\ TriageInit
    /\ ClsInit([kind |-> "MockService", model |-> None, is_trained |-> FALSE])
    /\ FbInit
    /\ WoInit
    /\ RsInit
    /\ SlaInit

NextRateUsers ==
    \/ \E q \in RlRequests, p \in RlPaths, ok \in BOOLEAN : RateLimitMiddleware(q, p, ok)
    \/ RlUserTick

SpecRateUsers == InitRateUsers /\ [][NextRateUsers]_vars

\* the /ai/triage handler with the triage service and Redis behind it
Init ==
    /\ now = 0 /\ ticks = 0
    /\ McInit
    /\ redisUp \in BOOLEAN
    /\ RlInit(1, 2)
    /\ mode \in Modes
    /\ TriageInit
    /\ ClsInit([kind |-> "MockService", model |-> None, is_trained |-> FALSE])
    /\ FbInit
    /\ WoInit
    /\ RsInit
    /\ SlaInit

Next ==
    \/ \E r \in RIds, i \in TicketInputs : TriageBegin(r, i)
    \/ \E r \in RIds : SvcCacheGet(r)
    \/ \E r \in RIds, g \in GeminiResponses : SvcClassify(r, g)
    \/ \E r \in RIds : SvcCacheSet(r)
    \/ \E r \in RIds, c \in MockConfidences : MockService(r, c)
    \/ TriageTick

Spec == Init /\ [][Next]_vars

\* the /ai/classify-ticket-advanced handler and the classification model
InitClassify ==
    /\ now = 0 /\ ticks = 0
    /\ McInit
    /\ redisUp = FALSE
    /\ RlInit(1, 2)
    /\ mode = "real" /\ TriageInit
    /\ \E m \in TfModels : ClsInit(m)
    /\ FbInit
    /\ WoInit
    /\ RsInit
    /\ SlaInit

NextClassify ==
    \E j \in BOOLEAN, t \in ClsTitles, d \in ClsDescriptions, p \in TfPredictions :
        ClassifyTicketAdvanced(j, t, d, p)

SpecClassify == InitClassify /\ [][NextClassify]_vars

\* the feedback service over Redis
FbTicketIds == {"T1"}

InitFeedback ==
    /\ now = 0 /\ ticks = 0
    /\ McInit
    /\ redisUp \in BOOLEAN
    /\ RlInit(1, 2)
    /\ mode = "real" /\ TriageInit
    /\ ClsInit([kind |-> "MockService", model |-> None, is_trained |-> FALSE])
    /\ FbInit
    /\ WoInit
    /\ RsInit
    /\ SlaInit

NextFeedback ==
    \/ \E p \in FbProcIds, t \in FeedbackTypes, i \in FbTicketIds,
          r \in FeedbackRatings, c \in FbConfidences :
            FbCollect(p, t, i, r, c, TRUE)
    \/ \E p \in FbProcIds, ok \in BOOLEAN : FbMetricsGet(p, ok)
    \/ \E p \in FbProcIds, ok \in BOOLEAN : FbMetricsSet(p, ok)
    \/ FbTick

SpecFeedback == InitFeedback /\ [][NextFeedback]_vars

\* the /ai/optimize-workload handler and the one WorkloadOptimizer
InitWorkload ==
    /\ now = 0 /\ ticks = 0
    /\ McInit
    /\ redisUp \in BOOLEAN
    /\ RlInit(1, 2)
    /\ mode = "real" /\ TriageInit
    /\ ClsInit([kind |-> "MockService", model |-> None, is_trained |-> FALSE])
    /\ FbInit
    /\ WoInit
    /\ RsInit
    /\ SlaInit

NextWorkload ==
    \E t \in WoTechnicianLists, k \in WoTicketLists, g \in WoGoalLists :
        OptimizeWorkload(t, k, g)

SpecWorkload == InitWorkload /\ [][NextWorkload]_vars

\* the /ai/suggest-resolution handler, with the imported or the mock
\* models and services
InitResolution ==
    /\ now = 0 /\ ticks = 0
    /\ McInit
    /\ redisUp \in BOOLEAN
    /\ RlInit(1, 2)
    /\ mode \in Modes /\ TriageInit
    /\ ClsInit([kind |-> "MockService", model |-> None, is_trained |-> FALSE])
    /\ FbInit
    /\ WoInit
    /\ RsInit
    /\ SlaInit

NextResolution ==
    \/ \E c \in RsCategories, s \in RsSimilar, a \in RsAi, w \in RsWaits,
          h \in RsSearches : SuggestResolution(c, s, a, w, h)
    \/ RsTick

SpecResolution == InitResolution /\ [][NextResolution]_vars

\* the /ai/predict-sla handler, with the imported or the mock models
InitSla ==
    /\ now = 0 /\ ticks = 0
    /\ McInit
    /\ redisUp \in BOOLEAN
    /\ RlInit(1, 2)
    /\ mode \in Modes /\ TriageInit
    /\ ClsInit([kind |-> "MockService", model |-> None, is_trained |-> FALSE])
    /\ FbInit
    /\ WoInit
    /\ RsInit
    /\ SlaInit

NextSla ==
    \/ \E i \in SlaTicketIds, p \in Priority, t \in {None, Some(now)} : PredictSla(i, p, t)
    \/ SlaTick

SpecSla == InitSla /\ [][NextSla]_vars

----------------------------------------------------------------------------
(* Claims about /ai/triage *)

Done(r) == reqs[r].pc = "done"
Resp(r) == reqs[r].resp[1]
ContentOf(request) == <<request.title, request.description, request.customer_tier>>

\* C1: no exception raised while processing a validated /ai/triage request
\* reaches the caller; the response is a success=false envelope carrying an
\* error message or a success=true emergency fallback classification.
C1_NoExceptionEscapes ==
    \A r \in RIds :
        Done(r) /\ reqs[r].raised =>
            /\ Resp(r).kind = "response"
            /\ \/ ~Resp(r).success /\ Resp(r).error # <<>> /\ Resp(r).result = None
               \/ /\ Resp(r).success /\ Resp(r).error = <<>>
                  /\ Resp(r).result = Some(EmergencyTriageFallback(reqs[r].input))

\* an exception inside the handler was answered with the emergency fallback
C1_Witness ==
    \E r \in RIds :
        /\ Done(r) /\ reqs[r].raised
        /\ Resp(r).success /\ Resp(r).result # None
        /\ Resp(r).result[1].fallback_mode

C5_Original ==
    \A r \in RIds :
        Done(r) =>
            /\ Resp(r).success /\ Resp(r).result # None
                   => Resp(r).result[1].ticket_id = Some(reqs[r].input.ticket_id)
            /\ reqs[r].svc # None
                   => reqs[r].svc[1].ticket_id = Some(reqs[r].input.ticket_id)

\* C6 as stated: triage requests for distinct ticket_ids that are processed
\* concurrently all complete with success=true.
C6_Original ==
    (/\ overlap
     /\ \A r \in RIds : Done(r)
     /\ \A r, q \in RIds : r # q => reqs[r].input.ticket_id # reqs[q].input.ticket_id)
        => \A r \in RIds : Resp(r).kind = "response" /\ Resp(r).success

\* C7 as stated: cached triage results are stored under a key derived from
\* a hash of the ticket's content, so two requests hit the same cache entry
\* exactly when their content (title, description, customer tier) is equal.
C7_Original ==
    /\ \A r \in RIds : reqs[r].hit # None => reqs[r].hit[1] = ContentOf(reqs[r].input)
    /\ \A r, q \in RIds :
           reqs[r].pc \in {"svc_ai", "svc_set"} /\ reqs[q].pc \in {"svc_ai", "svc_set"} =>
               (GenerateCacheKey(reqs[r].input) = GenerateCacheKey(reqs[q].input)
                    <=> ContentOf(reqs[r].input) = ContentOf(reqs[q].input))

\* C8 as stated: a triage request whose ticket_id, title and description are
\* empty is answered with success=false, an error containing "Invalid input"
\* and no classification result.
C8_Original ==
    \A r \in RIds :
        (/\ Done(r)
         /\ reqs[r].input.ticket_id = ""
         /\ reqs[r].input.title = <<>>
         /\ reqs[r].input.description = <<>>) =>
            /\ Resp(r).kind = "response"
            /\ ~Resp(r).success
            /\ Resp(r).error # <<>> /\ Resp(r).error[1] = "Invalid input: "
            /\ Resp(r).result = None

\* the words by which a ticket reports an outage or a critical failure
OutageKeywords == {<<"outage">>, <<"down">>, <<"critical">>}

HighOrCritical(result) ==
    /\ result.priority \in {"high", "critical"}
    /\ result.urgency \in {"high", "critical"}
    /\ result.impact \in {"high", "critical"}

\* C9 as stated: a ticket whose text reports an outage or critical failure
\* is triaged with priority, urgency and impact in {high, critical},
\* whichever classification path produces the result.
C9_Original ==
    \A r \in RIds :
        Done(r) /\ AnyKwIn(OutageKeywords, TextOf(reqs[r].input)) =>
            /\ Resp(r).result # None => HighOrCritical(Resp(r).result[1])
            /\ reqs[r].svc # None => HighOrCritical(reqs[r].svc[1])

----------------------------------------------------------------------------
(* C2 *)

\* the time-to-live a set() was called with: expire when given, else ttl,
\* else the cache's default
RequestedTTL(s) ==
    IF s.expire # None THEN s.expire[1]
    ELSE IF s.ttl # None THEN s.ttl[1] ELSE DefaultTTL

\* the first non-zero of expire, ttl and the default
EffectiveTTL(s) ==
    IF s.expire # None /\ s.expire[1] # 0 THEN s.expire[1]
    ELSE IF s.ttl # None /\ s.ttl[1] # 0 THEN s.ttl[1] ELSE DefaultTTL

GetAgrees(g, t) ==
    LET s == g.since[1]
    IN IF g.at - s.at < t THEN g.result = Some(s.value) ELSE g.result = None

----------------------------------------------------------------------------
(* Claims about ticket classification *)

\* the classification fell back to the keyword heuristics and succeeded
KeywordResult(result) ==
    /\ result.success
    /\ result.error = None
    /\ result.model_type = Some("fallback_keyword_based")
    /\ result.predicted_category # None

\* no loaded, trained TensorFlow model stands behind ticket_classification_model
TfUnavailable ==
    \/ ticket_classification_model.kind = "MockService"
    \/ ticket_classification_model.model = None
    \/ ~ticket_classification_model.is_trained

----------------------------------------------------------------------------
(* Claims about the frame of the MockCache *)

\* get(key) finds the entry of key expired and removes it
McGetExpired(k) ==
    /\ mcache[k] # None
    /\ ~McLive(now, mcache[k][1])
    /\ McGet(k)

\* C16: the entry of a key is removed or changed only by delete(key), by
\* set(key) overwriting it (called directly, or by increment(key), which is
\* get(key) followed by set(key)), or by a get(key) that finds it expired;
\* operations on other keys, a get that finds the entry live and the passage
\* of time leave it as it is.
C16_Frame ==
    [][\A k \in DOMAIN mcache :
          mcache'[k] # mcache[k] =>
              \/ McDelete(k)
              \/ \E v \in McValues, t \in McFrameTTLs : McSet(k, v, t, None)
              \/ \E t \in McFrameTTLs : McIncrement(k, 1, t)
              \/ McGetExpired(k)]_vars

\* an expired entry of one key is still in the cache after time has passed
\* and the other key has been read, written and deleted
C16_Witness ==
    /\ mcache["k1"] # None
    /\ ~McLive(now, mcache["k1"][1])
    /\ mcLastSet["k1"] # None /\ mcLastSet["k1"][1].at < now
    /\ mcGot # None /\ mcGot[1].key = "k2" /\ mcGot[1].at = now
    /\ mcache["k2"] # None

----------------------------------------------------------------------------
(* Claims about the rate limiter without Redis *)

\* the middleware decided a request of key k in this step
RlDecided(k) == rlPending'[k] = rlPending[k] - 1

\* C17: when Redis is not connected, or the increment of the counter fails
\* (no counter changes), the middleware lets the request through: the
\* request is passed to the endpoint and none is rejected.
C17_FailOpen ==
    [][\A k \in RlKeys :
          RlDecided(k) /\ (~redisUp \/ rlCounters' = rlCounters) =>
              /\ rlHist'[k].passed = rlHist[k].passed + 1
              /\ rlHist'[k].rejected = rlHist[k].rejected
              /\ rlCounters' = rlCounters]_vars

\* more requests than the limit were let through for one key while nothing
\* was counted
C17_Witness ==
    \E k \in RlKeys :
        /\ rlHist[k].passed > rlLimit
        /\ rlHist[k].counted = 0
        /\ rlHist[k].rejected = 0
        /\ rlCounters[k] = None

----------------------------------------------------------------------------
(* Further claims about /ai/triage *)

\* C13 as stated: two identical triage requests issued one after the other
\* receive results with the same category and the same priority.
C13_Original ==
    \A r, q \in RIds :
        (/\ r < q /\ Done(r) /\ Done(q) /\ ~overlap
         /\ reqs[r].input = reqs[q].input) =>
            /\ Resp(r).kind = "response" /\ Resp(q).kind = "response"
            /\ Resp(r).result # None /\ Resp(q).result # None
            /\ Resp(r).result[1].category = Resp(q).result[1].category
            /\ Resp(r).result[1].priority = Resp(q).result[1].priority

InUnitRange(confidence_score) == confidence_score >= 0 /\ confidence_score <= ConfOne

\* C15: every triage result returned with success=true, and every
\* TriageResult the service returns to the handler (from Gemini's answer,
\* from the rule-based fallback or from its cache), has a confidence_score
\* between 0 and 1 inclusive; so has the emergency fallback.
C15_ConfidenceRange ==
    \A r \in RIds :
        Done(r) =>
            /\ Resp(r).kind = "response" /\ Resp(r).success /\ Resp(r).result # None
                   => InUnitRange(Resp(r).result[1].confidence_score)
            /\ reqs[r].svc # None => InUnitRange(reqs[r].svc[1].confidence_score)
            /\ InUnitRange(EmergencyTriageFallback(reqs[r].input).confidence_score)

\* a result of the AI path, its confidence raised by the keyword boost, was
\* returned by the service and one answered from the service's cache
C15_Witness ==
    \E r, q \in RIds :
        /\ Done(r) /\ Done(q)
        /\ reqs[r].path = "ai" /\ reqs[r].svc # None
        /\ reqs[r].svc[1].confidence_score > Pct(90)
        /\ reqs[q].path = "cache" /\ reqs[q].svc # None

----------------------------------------------------------------------------
(* Claims about the feedback metrics *)

FbQuiet(type) ==
    \A p \in FbProcIds : fbProcs[p].pc # "idle" => fbProcs[p].feedback.type # type

StoredMetrics(type) == RedisGet(fbStore, <<"model_metrics", type>>, now)

\* the stored metrics of a type are the aggregates of the submissions
\* processed
MetricsAreTrue(type) ==
    /\ StoredMetrics(type) # None
    /\ LET m == StoredMetrics(type)[1].value
       IN /\ m.total_feedback = fbHist[type].count
          /\ m.rating_distribution = fbHist[type].dist
          /\ m.average_rating * fbHist[type].count = fbHist[type].sum * AvgUnit

\* C18 as stated: when two feedback submissions of the same type are
\* processed concurrently, both are counted: total_feedback grows by two and
\* both ratings appear in rating_distribution.
C18_Original ==
    \A t \in FeedbackTypes :
        (/\ fbHist[t].overlapped /\ FbQuiet(t)
         /\ redisUp /\ ~fbHist[t].failed /\ ~fbHist[t].expired
         /\ fbHist[t].count > 0) =>
            /\ StoredMetrics(t) # None
            /\ StoredMetrics(t)[1].value.total_feedback = fbHist[t].count
            /\ StoredMetrics(t)[1].value.rating_distribution = fbHist[t].dist

----------------------------------------------------------------------------
(* Claims about workload optimization *)

TechnicianIds(technicians) ==
    {technicians[i].technician_id : i \in 1 .. Len(technicians)}

\* C11 as stated: a successful workload-optimization response contains one
\* recommendation for every pending ticket, each giving the ticket_id and
\* the recommended_technician_id of one of the submitted technicians.
C11_Original ==
    woLast # None /\ woLast[1].response.success =>
        LET tickets == woLast[1].pending_tickets
            recommendations == woLast[1].response.assignments
        IN /\ \A i \in 1 .. Len(tickets) :
                  Cardinality({k \in 1 .. Len(recommendations) :
                      recommendations[k].ticket_id = tickets[i].ticket_id}) = 1
           /\ \A k \in 1 .. Len(recommendations) :
                  recommendations[k].recommended_technician_id
                      \in TechnicianIds(woLast[1].technicians)

\* C20 as stated: the assignments computed for a workload-optimization
\* request depend only on that request's technicians, tickets and goals, not
\* on the optimization goals of any earlier request: they are the
\* assignments an optimizer that has served no request computes.
C20_Original ==
    woLast # None /\ woLast[1].computed # None =>
        woLast[1].computed[1] =
            GenerateInitialAssignments(
                woLast[1].technicians, woLast[1].pending_tickets,
                UpdateOptimizationWeights(InitialWeights, woLast[1].optimization_goals))

----------------------------------------------------------------------------
(* Claims about resolution suggestions *)

----------------------------------------------------------------------------
(* Claims about SLA prediction *)

\* C14 as stated: for a ticket triaged as critical, /ai/predict-sla returns
\* a breach_probability of at least 0.3 and a risk_level of high or critical.
C14_Original ==
    slaLast # None /\ slaLast[1].request.priority = "critical" =>
        /\ slaLast[1].response.result # None
        /\ slaLast[1].response.result[1].breach_probability >= Pct(30)
        /\ slaLast[1].response.result[1].risk_level \in {"high", "critical"}

\* the pending ticket of the last request with the given id
TicketOf(ticket_id) ==
    LET tickets == woLast[1].pending_tickets
    IN tickets[CHOOSE i \in 1 .. Len(tickets) : tickets[i].ticket_id = ticket_id]

\* C23 as stated: the greedy assignment considers the pending tickets in
\* descending priority (critical first), and among tickets of equal priority
\* the one with the earliest SLA deadline first.  The assignments are
\* appended in the order the tickets are considered.
C23_Original ==
    woLast # None /\ woLast[1].computed # None =>
        LET assignments == woLast[1].computed[1]
        IN \A i, j \in 1 .. Len(assignments) :
               i < j =>
                   LET a == TicketOf(assignments[i].ticket_id)
                       b == TicketOf(assignments[j].ticket_id)
                   IN \/ PriorityScore(a.priority) > PriorityScore(b.priority)
                      \/ /\ PriorityScore(a.priority) = PriorityScore(b.priority)
                         /\ a.sla_hours <= b.sla_hours

\* the technician of the last request with the given id
TechnicianOf(technician_id) ==
    LET technicians == woLast[1].technicians
    IN technicians[CHOOSE i \in 1 .. Len(technicians) :
                       technicians[i].technician_id = technician_id]

\* the minutes of the tickets the run gave the technician before its k-th
\* assignment
AssignedBefore(k, technician_id) ==
    DefaultEstimatedTime
        * Cardinality({j \in 1 .. k - 1 :
                          woLast[1].computed[1][j].technician_id = technician_id})

\* C22 as stated: after an optimization run, no technician's current
\* workload plus the estimated hours of the tickets assigned to them in that
\* run exceeds their max_capacity.
C22_Original ==
    woLast # None /\ woLast[1].computed # None =>
        \A i \in 1 .. Len(woLast[1].technicians) :
            LET tech == woLast[1].technicians[i]
            IN tech.current_workload * 60
                   + AssignedBefore(Len(woLast[1].computed[1]) + 1, tech.technician_id)
                       <= tech.max_capacity * 60

\* utilization of at least 0.9 when the k-th assignment of the run is made
Overloaded(tech, k) ==
    (tech.current_workload * 60 + AssignedBefore(k, tech.technician_id)) * 10
        >= tech.max_capacity * 60 * 9

\* two technicians alike in everything the score reads but their load
AlikeButLoad(a, b) ==
    /\ a.skills = b.skills
    /\ a.burnout_tenths = b.burnout_tenths
    /\ a.learning_goals = b.learning_goals

\* C22, amended: capacity is a preference, not a limit.  A ticket goes to a
\* technician at or beyond 90% utilization only if every submitted
\* technician alike in everything but the load is at or beyond 90% too.
C22_PrefersSpareCapacity ==
    woLast # None /\ woLast[1].computed # None =>
        \A k \in 1 .. Len(woLast[1].computed[1]) :
            LET chosen == TechnicianOf(woLast[1].computed[1][k].technician_id)
            IN Overloaded(chosen, k) =>
                   \A i \in 1 .. Len(woLast[1].technicians) :
                       AlikeButLoad(woLast[1].technicians[i], chosen)
                           => Overloaded(woLast[1].technicians[i], k)

\* a run with two technicians alike but for the load, one of them at 95%
\* utilization and listed first, in which the other was given a ticket
C22_Witness ==
    /\ woLast # None /\ woLast[1].computed # None
    /\ \E k \in 1 .. Len(woLast[1].computed[1]), i \in 1 .. Len(woLast[1].technicians) :
           LET chosen == TechnicianOf(woLast[1].computed[1][k].technician_id)
               other == woLast[1].technicians[i]
           IN /\ other.technician_id # chosen.technician_id
              /\ AlikeButLoad(other, chosen)
              /\ Overloaded(other, k)
              /\ ~Overloaded(chosen, k)

----------------------------------------------------------------------------
(* Claims about the validation of AI classifications *)

\* C24 as stated: after an AI classification has been validated, its
\* category, urgency and impact are each a legal value of TicketCategory,
\* Urgency and Impact respectively, so building the triage result from it
\* never fails.
C24_Original ==
    \A r \in RIds :
        reqs[r].ai # None =>
            /\ reqs[r].ai[1].category \in TicketCategory
            /\ reqs[r].ai[1].urgency \in Urgency
            /\ reqs[r].ai[1].impact \in Impact
            /\ reqs[r].built_ok

SecurityHandled(result) ==
    result.category = "security" =>
        result.urgency = "urgent" /\ result.priority \in {"high", "critical"}

----------------------------------------------------------------------------
(* Claims about the identifiers of the rate limiter *)

\* the counter a request of q is counted against at time t
CounterOf(q, t) == <<GetIdentifier(q), WindowStart(t, rlWindow)>>

\* C26 as stated: requests from two different authenticated users are
\* counted against different rate-limit counters, so one user's traffic never
\* reduces another user's remaining allowance: a request of one user leaves
\* the counter of every other user as it was.
C26_Original ==
    [][\A q, o \in RlRequests :
          (/\ q.authorization # None /\ o.authorization # None
           /\ q.user # o.user
           /\ \E p \in RlPaths, ok \in BOOLEAN : RateLimitMiddleware(q, p, ok))
              => rlCounters'[CounterOf(o, now)] = rlCounters[CounterOf(o, now)]]_vars

====
